---- MODULE Spec2Model ----
(***************************************************************************)
(* OPTIGA Trust X/M host driver: the command dispatcher of                 *)
(* drivers/crypto/optiga/crypto_optiga.c.                                  *)
(*                                                                         *)
(* One worker thread (optiga_worker) owns the element.  Caller threads     *)
(* submit APDU descriptors through enqueue_apdu and wait on the            *)
(* descriptor's k_poll_signal, as cmds_submit_apdu does.  The transport    *)
(* below the dispatcher (network/transport, data link and physical layer)  *)
(* is an environment whose calls return nondeterministically.              *)
(***************************************************************************)
EXTENDS Integers, Sequences, FiniteSets, TLC

(***************************************************************************)
(* Bounds of the model                                                     *)
(***************************************************************************)
\* number of caller threads, each owning one descriptor (optrust_ctx.apdu)
NCallers == 2
\* number of callers that go through the command encoders (optrust_ctx)
NEncoders == 1

(***************************************************************************)
(* Program constants                                                       *)
(***************************************************************************)
OPTIGA_MAX_RESET == 3
OPTIGA_GET_ERROR_RESPONSE_LEN == 5
OPTIGA_APDU_STA_SUCCESS == 0
OPTIGA_STATUS_CODE_SUCCESS == 0
EIO == 5
EINVAL == 22
ENOMEM == 12
OPTIGA_OPEN_APPLICATION_RESPONSE_LEN == 4
\* first byte of a command APDU; the encoders reuse the tx buffer for rx
OPTIGA_TRUSTX_CMD_GET_DATA_OBJECT == 129
\* capacity a caller announces in rx_len at submission (TMP_BUF_SIZE)
TMP_BUF_SIZE == 1024

NULL == 0
Worker == 0
Callers == 1 .. NCallers
\* caller c submits the descriptor c
Descs == Callers
\* callers that own an optrust_ctx
EncCallers == 1 .. NEncoders

(***************************************************************************)
(* Values the element can put on the wire                                  *)
(***************************************************************************)
\* byte 0 of a response APDU: 0 success, anything else a command error
StaBytes == {0, 7}
\* byte 4 of the GetErrorCode response
ErrCodeBytes == {0, 255}
\* lengths of a received response APDU
RxLens == {4}

VARIABLES
    apdu_queue,     \* data->apdu_queue: the k_fifo, a sequence of descriptors
    reset_counter,  \* data->reset_counter
    finished,       \* apdu->finished of each descriptor: [signaled, result]
    rx,             \* apdu->rx_len and apdu->rx_buf[0] of each descriptor
    wpc,            \* position of optiga_worker
    apdu,           \* the worker's local apdu pointer
    err,            \* the worker's local err
    cpc,            \* position of each caller in cmds_submit_apdu
    on_bus,         \* threads that are inside a transport call
    order,          \* history: submitted, not yet signalled, in enqueue order
    raises,         \* history: raises of the signal since its last init
    xfer,           \* history: round-trip of the submission (none/sent/ok/failed)
    nreset,         \* history: optiga_reset calls since the last K_FOREVER get
    nerrcode,       \* history: GetErrorCode exchanges since that get
    subx,           \* history: how the last GetErrorCode exchange went
    faults,         \* history: consecutive failed caller round-trips
    last_path,      \* history: how the last worker iteration ended
    init,           \* history: how the boot-time optiga_init call went
    cap,            \* history: rx capacity the caller put in rx_len
    enc,            \* the command encoder call of each caller and its return
    late,           \* history: descriptors put while the fault path runs
    last_reset,     \* history: outcome of the optiga_reset of the last fault
    call,           \* a call of a function of the stack: inputs and result
    dl              \* the data link layer: its state and its last receive

vars == <<apdu_queue, reset_counter, finished, rx, wpc, apdu, err, cpc,
          on_bus, order, raises, xfer, nreset, nerrcode, subx, faults,
          last_path, init, cap, enc, late, last_reset, call, dl>>

(***************************************************************************)
(* Kernel primitives                                                       *)
(***************************************************************************)
\* k_poll_signal_init: clears signaled, leaves result as it is
k_poll_signal_init(sig) == [sig EXCEPT !.signaled = 0]

\* k_poll_signal_raise
k_poll_signal_raise(sig, result) == [signaled |-> 1, result |-> result]

\* k_fifo_put: append at the tail
k_fifo_put(q, d) == Append(q, d)

\* k_fifo_get: the item at the head, NULL when the fifo is empty
k_fifo_get(q) == IF q = <<>> THEN NULL ELSE Head(q)

\* the fifo after k_fifo_get
k_fifo_rest(q) == IF q = <<>> THEN q ELSE Tail(q)

(***************************************************************************)
(* Transport calls, as seen by the dispatcher                              *)
(***************************************************************************)
\* optiga_nettran_send_apdu: 0 or an I/O error
optiga_nettran_send_apdu == {0, -EIO}

\* optiga_nettran_recv_apdu into a buffer holding cur, whose len is the
\* capacity: the error and the buffer afterwards; a response longer than the
\* capacity is a failure; on failure the buffer contents are undefined
optiga_nettran_recv_apdu(cur) ==
    {[err |-> 0, rx |-> [len |-> l, sta |-> s]] :
        l \in {n \in RxLens : n <= cur.len}, s \in StaBytes}
    \cup {[err |-> -EIO, rx |-> cur]}
    \cup {[err |-> -EIO, rx |-> [len |-> cur.len, sta |-> s]] : s \in StaBytes}

optiga_transfer_apdu_IgnoreRecvError(snd, rcv, cur) ==
    IF snd # 0
    THEN [err |-> snd, rx |-> cur]
    ELSE [err |-> 0, rx |-> rcv.rx]

\* optiga_transfer_apdu: send, and receive only if the send succeeded;
\* snd and rcv are what the two transport calls return
optiga_transfer_apdu(snd, rcv, cur) ==
    IF snd # 0
    THEN [err |-> snd, rx |-> cur]
    ELSE [err |-> rcv.err, rx |-> rcv.rx]

\* optiga_apdu_is_error
optiga_apdu_is_error(buf) == buf.sta # OPTIGA_APDU_STA_SUCCESS

\* what receiving the GetErrorCode response into tmp_buf can give
ErrorCodeRecv ==
    [err : {0}, len : {4, OPTIGA_GET_ERROR_RESPONSE_LEN}, b0 : StaBytes,
     b2 : {0, 1}, b3 : {0, 1}, b4 : ErrCodeBytes]
    \cup [err : {-EIO}, len : {OPTIGA_GET_ERROR_RESPONSE_LEN}, b0 : {0},
          b2 : {0}, b3 : {0}, b4 : {0}]

\* variant of optiga_get_error_code that stores byte 4 as soon as the
\* response is received, before it is checked
optiga_get_error_code_StoreFirst(snd, rcv, err_code) ==
    IF snd # 0
    THEN [err |-> snd, err_code |-> err_code]
    ELSE IF rcv.err # 0
    THEN [err |-> rcv.err, err_code |-> err_code]
    ELSE IF rcv.len # OPTIGA_GET_ERROR_RESPONSE_LEN
    THEN [err |-> -EIO, err_code |-> rcv.b4]
    ELSE IF rcv.b0 # 0
    THEN [err |-> -EIO, err_code |-> rcv.b4]
    ELSE IF rcv.b2 # 0 \/ rcv.b3 # 1
    THEN [err |-> -EIO, err_code |-> rcv.b4]
    ELSE [err |-> 0, err_code |-> rcv.b4]

\* optiga_get_error_code: send, receive, check the response, store byte 4
optiga_get_error_code(snd, rcv, err_code) ==
    IF snd # 0
    THEN [err |-> snd, err_code |-> err_code]
    ELSE IF rcv.err # 0
    THEN [err |-> rcv.err, err_code |-> err_code]
    ELSE IF rcv.len # OPTIGA_GET_ERROR_RESPONSE_LEN
    THEN [err |-> -EIO, err_code |-> err_code]
    ELSE IF rcv.b0 # 0
    THEN [err |-> -EIO, err_code |-> err_code]
    ELSE IF rcv.b2 # 0 \/ rcv.b3 # 1
    THEN [err |-> -EIO, err_code |-> err_code]
    ELSE [err |-> 0, err_code |-> rcv.b4]

\* what receiving the OpenApplication response into the zeroed 4-byte
\* tmp_buf can give; a short response leaves the last byte zero
OpenApplicationRecv ==
    {r \in [err : {0}, len : {3, OPTIGA_OPEN_APPLICATION_RESPONSE_LEN},
            buf : {<<0, 0, 0, 0>>, <<0, 0, 0, 1>>, <<1, 0, 0, 0>>}] :
        r.len = 3 => r.buf[4] = 0}
    \cup [err : {-EIO}, len : {OPTIGA_OPEN_APPLICATION_RESPONSE_LEN},
          buf : {<<0, 0, 0, 0>>}]

\* the expected response resp[] = {0}
resp == [i \in 1 .. OPTIGA_OPEN_APPLICATION_RESPONSE_LEN |-> 0]

\* memcmp over the first n bytes: 0 when they are equal
memcmp(a, b, n) == IF \A i \in 1 .. n : a[i] = b[i] THEN 0 ELSE 1

optiga_open_application_AnyContent(snd, rcv) ==
    IF snd # 0
    THEN snd
    ELSE IF rcv.err # 0
    THEN rcv.err
    ELSE IF OPTIGA_OPEN_APPLICATION_RESPONSE_LEN # rcv.len
    THEN -EIO
    ELSE 0

\* optiga_open_application: send the APDU, receive, compare the response
optiga_open_application(snd, rcv) ==
    IF snd # 0
    THEN snd
    ELSE IF rcv.err # 0
    THEN rcv.err
    ELSE IF \/ OPTIGA_OPEN_APPLICATION_RESPONSE_LEN # rcv.len
            \/ memcmp(rcv.buf, resp, OPTIGA_OPEN_APPLICATION_RESPONSE_LEN) # 0
    THEN -EIO
    ELSE 0

\* what the calls made by one optiga_reset return
ResetEnv ==
    [phy : {0, -EIO}, dl : {0, -EIO}, nt : {0, -EIO},
     snd : optiga_nettran_send_apdu, rcv : OpenApplicationRecv]

\* the element answers every step of a reset
GoodEnv ==
    [phy |-> 0, dl |-> 0, nt |-> 0, snd |-> 0,
     rcv |-> [err |-> 0, len |-> OPTIGA_OPEN_APPLICATION_RESPONSE_LEN,
              buf |-> <<0, 0, 0, 0>>]]

\* optiga_reset with the steps it ran: optiga_phy_init, optiga_data_init,
\* optiga_nettran_init, optiga_open_application
optiga_reset_steps(e) ==
    IF e.phy # 0
    THEN [err |-> e.phy, log |-> <<"phy">>]
    ELSE IF e.dl # 0
    THEN [err |-> e.dl, log |-> <<"phy", "dl">>]
    ELSE IF e.nt # 0
    THEN [err |-> e.nt, log |-> <<"phy", "dl", "nt">>]
    ELSE [err |-> optiga_open_application(e.snd, e.rcv),
          log |-> <<"phy", "dl", "nt", "open_application">>]

\* optiga_reset: what it can return
optiga_reset == {optiga_reset_steps(e).err : e \in ResetEnv}

NoReset == [err |-> 0, log |-> <<>>]

\* what device_get_binding(config->i2c_dev_name) can return
I2cBindings == {NULL, 1}

optiga_init_IgnoreResetError(i2c_master, e) ==
    IF i2c_master = NULL
    THEN [ret |-> -EINVAL, log |-> <<"zero", "bind">>, reset |-> NoReset]
    ELSE [ret |-> 0,
          log |-> <<"zero", "bind", "reset", "fifo", "thread">>,
          reset |-> optiga_reset_steps(e)]

\* optiga_init with the steps it ran: zero the counter, bind the bus,
\* optiga_reset, k_fifo_init, k_thread_create
optiga_init(i2c_master, e) ==
    IF i2c_master = NULL
    THEN [ret |-> -EINVAL, log |-> <<"zero", "bind">>, reset |-> NoReset]
    ELSE LET r == optiga_reset_steps(e) IN
         IF r.err # 0
         THEN [ret |-> r.err, log |-> <<"zero", "bind", "reset">>, reset |-> r]
         ELSE [ret |-> 0,
               log |-> <<"zero", "bind", "reset", "fifo", "thread">>,
               reset |-> r]

\* history record of an optiga_init call
InitCall(pc, i2c_master, e, r) ==
    [pc |-> pc, i2c_master |-> i2c_master, env |-> e, ret |-> r.ret,
     log |-> r.log, reset |-> r.reset]

\* history: which step of the GetErrorCode exchange decided its result
SubExchange(snd, rcv, r) ==
    [io |-> IF snd # 0 THEN "send"
            ELSE IF rcv.err # 0 THEN "recv"
            ELSE IF r.err # 0 THEN "parse" ELSE "ok",
     b4 |-> IF snd = 0 /\ rcv.err = 0 THEN rcv.b4 ELSE 0]

NoSubExchange == [io |-> "none", b4 |-> 0]

\* no command encoder call
NoEncoder == [kind |-> "none", ret |-> 0, copied |-> FALSE, queued |-> FALSE]

\* no function of the stack is being called on its own
NoCall == [fn |-> "none"]

\* the data link layer is not exercised on its own
NoDataLink == [pc |-> "none"]

(***************************************************************************)
(* Initial state: optiga_init has returned 0                               *)
(***************************************************************************)
DriverInit ==
    /\ apdu_queue = <<>>
    /\ reset_counter = 0
    /\ finished = [d \in Descs |-> [signaled |-> 0, result |-> 0]]
    /\ rx = [d \in Descs |->
                [len |-> TMP_BUF_SIZE, sta |-> OPTIGA_TRUSTX_CMD_GET_DATA_OBJECT]]
    /\ wpc = "get"
    /\ apdu = NULL
    /\ err = 0
    /\ cpc = [c \in Callers |-> "idle"]
    /\ on_bus = {}
    /\ order = <<>>
    /\ raises = [d \in Descs |-> 0]
    /\ xfer = [d \in Descs |-> "none"]
    /\ nreset = 0
    /\ nerrcode = 0
    /\ subx = NoSubExchange
    /\ faults = 0
    /\ last_path = "none"
    /\ init = InitCall("returned", 1, GoodEnv, optiga_init(1, GoodEnv))
    /\ cap = [d \in Descs |-> TMP_BUF_SIZE]
    /\ enc = [c \in Callers |-> NoEncoder]
    /\ late = {}
    /\ last_reset = "none"

Init ==
    /\ DriverInit
    /\ call = NoCall
    /\ dl = NoDataLink

(***************************************************************************)
(* Callers: cmds_submit_apdu                                               *)
(***************************************************************************)
\* history: d leaves the submitted-and-unsignalled sequence
Completed(seq, d) == SelectSeq(seq, LAMBDA x : x # d)

\* variant of EnqueueInit that leaves the signal as the last raise left it
EnqueueInit_NoSignalInit(c) ==
    /\ cpc[c] = "idle"
    /\ init.pc = "returned"
    /\ cap' = [cap EXCEPT ![c] = TMP_BUF_SIZE]
    /\ UNCHANGED <<init, enc, late, last_reset, call, dl>>
    /\ rx' = [rx EXCEPT ![c] = [len |-> TMP_BUF_SIZE,
                                sta |-> OPTIGA_TRUSTX_CMD_GET_DATA_OBJECT]]
    /\ raises' = [raises EXCEPT ![c] = 0]
    /\ xfer' = [xfer EXCEPT ![c] = "none"]
    /\ cpc' = [cpc EXCEPT ![c] = "put"]
    /\ UNCHANGED <<apdu_queue, reset_counter, finished, wpc, apdu, err, on_bus,
                   order, nreset, nerrcode, subx, faults, last_path>>

\* the caller fills the descriptor; enqueue_apdu initialises the signal
EnqueueInit(c) ==
    /\ cpc[c] = "idle"
    /\ init.pc = "returned"
    /\ cap' = [cap EXCEPT ![c] = TMP_BUF_SIZE]
    /\ UNCHANGED <<init, enc, late, last_reset, call, dl>>
    /\ rx' = [rx EXCEPT ![c] = [len |-> TMP_BUF_SIZE,
                                sta |-> OPTIGA_TRUSTX_CMD_GET_DATA_OBJECT]]
    /\ finished' = [finished EXCEPT ![c] = k_poll_signal_init(@)]
    /\ raises' = [raises EXCEPT ![c] = 0]
    /\ xfer' = [xfer EXCEPT ![c] = "none"]
    /\ cpc' = [cpc EXCEPT ![c] = "put"]
    /\ UNCHANGED <<apdu_queue, reset_counter, wpc, apdu, err, on_bus, order,
                   nreset, nerrcode, subx, faults, last_path>>

EnqueuePut_Head(c) ==
    /\ UNCHANGED <<init, cap, enc, last_reset, call, dl>>
    /\ late' = IF wpc \in {"reset", "drain"} THEN late \cup {c} ELSE late
    /\ cpc[c] = "put"
    /\ apdu_queue' = <<c>> \o apdu_queue
    /\ order' = Append(order, c)
    /\ cpc' = [cpc EXCEPT ![c] = "wait"]
    /\ UNCHANGED <<reset_counter, finished, rx, wpc, apdu, err, on_bus,
                   raises, xfer, nreset, nerrcode, subx, faults, last_path>>

EnqueuePut_Direct(c) ==
    /\ UNCHANGED <<init, cap, enc, last_reset, call, dl>>
    /\ late' = IF wpc \in {"reset", "drain"} THEN late \cup {c} ELSE late
    /\ cpc[c] = "put"
    /\ apdu_queue' = k_fifo_put(apdu_queue, c)
    /\ order' = Append(order, c)
    /\ on_bus' = on_bus \cup {c}
    /\ cpc' = [cpc EXCEPT ![c] = "wait"]
    /\ UNCHANGED <<reset_counter, finished, rx, wpc, apdu, err,
                   raises, xfer, nreset, nerrcode, subx, faults, last_path>>

\* variant of EnqueuePut that refuses the descriptor once the core is dead
EnqueuePut_RejectWhenDead(c) ==
    /\ UNCHANGED <<init, cap, enc, last_reset, call, dl>>
    /\ late' = IF wpc \in {"reset", "drain"} THEN late \cup {c} ELSE late
    /\ cpc[c] = "put"
    /\ IF reset_counter > OPTIGA_MAX_RESET
       THEN /\ cpc' = [cpc EXCEPT ![c] = "idle"]
            /\ UNCHANGED <<apdu_queue, order>>
       ELSE /\ apdu_queue' = k_fifo_put(apdu_queue, c)
            /\ order' = Append(order, c)
            /\ cpc' = [cpc EXCEPT ![c] = "wait"]
    /\ UNCHANGED <<reset_counter, finished, rx, wpc, apdu, err, on_bus,
                   raises, xfer, nreset, nerrcode, subx, faults, last_path>>


\* enqueue_apdu puts the descriptor into the fifo and returns 0
EnqueuePut(c) ==
    /\ UNCHANGED <<init, cap, enc, last_reset, call, dl>>
    /\ late' = IF wpc \in {"reset", "drain"} THEN late \cup {c} ELSE late
    /\ cpc[c] = "put"
    /\ apdu_queue' = k_fifo_put(apdu_queue, c)
    /\ order' = Append(order, c)
    /\ cpc' = [cpc EXCEPT ![c] = "wait"]
    /\ UNCHANGED <<reset_counter, finished, rx, wpc, apdu, err, on_bus,
                   raises, xfer, nreset, nerrcode, subx, faults, last_path>>

\* k_poll(events, 1, K_FOREVER) returns once the signal is raised
WaitDone(c) ==
    /\ UNCHANGED <<init, cap, enc, late, last_reset, call, dl>>
    /\ cpc[c] = "wait"
    /\ finished[c].signaled = 1
    /\ cpc' = [cpc EXCEPT ![c] = "idle"]
    /\ UNCHANGED <<apdu_queue, reset_counter, finished, rx, wpc, apdu, err,
                   on_bus, order, raises, xfer, nreset, nerrcode, subx, faults,
                   last_path>>

(***************************************************************************)
(* The worker: optiga_worker                                               *)
(***************************************************************************)
\* the worker raises apdu->finished with result
Raise(d, result) ==
    /\ finished' = [finished EXCEPT ![d] = k_poll_signal_raise(@, result)]
    /\ raises' = [raises EXCEPT ![d] = @ + 1]
    /\ order' = Completed(order, d)

Dequeue_Peek ==
    /\ UNCHANGED <<init, cap, enc, late, last_reset, call, dl>>
    /\ wpc = "get"
    /\ apdu_queue # <<>>
    /\ apdu' = k_fifo_get(apdu_queue)
    /\ wpc' = "check"
    /\ err' = 0
    /\ nreset' = 0
    /\ nerrcode' = 0
    /\ subx' = NoSubExchange
    /\ UNCHANGED <<apdu_queue, reset_counter, finished, rx, cpc, on_bus, order,
                   raises, xfer, faults, last_path>>

\* k_fifo_get(&data->apdu_queue, K_FOREVER)
Dequeue ==
    /\ UNCHANGED <<init, cap, enc, late, last_reset, call, dl>>
    /\ wpc = "get"
    /\ apdu_queue # <<>>
    /\ apdu' = k_fifo_get(apdu_queue)
    /\ apdu_queue' = k_fifo_rest(apdu_queue)
    /\ wpc' = "check"
    /\ err' = 0
    /\ nreset' = 0
    /\ nerrcode' = 0
    /\ subx' = NoSubExchange
    /\ UNCHANGED <<reset_counter, finished, rx, cpc, on_bus, order, raises,
                   xfer, faults, last_path>>

DeadCheck_NoContinue ==
    /\ UNCHANGED <<init, cap, enc, late, call, dl>>
    /\ last_reset' = "none"
    /\ wpc = "check"
    /\ IF reset_counter > OPTIGA_MAX_RESET
       THEN /\ Raise(apdu, -EIO)
            /\ last_path' = "dead"
       ELSE UNCHANGED <<finished, raises, order, last_path>>
    /\ wpc' = "transfer"
    /\ on_bus' = on_bus \cup {Worker}
    /\ xfer' = [xfer EXCEPT ![apdu] = "sent"]
    /\ UNCHANGED <<apdu_queue, reset_counter, rx, apdu, err, cpc, nreset,
                   nerrcode, subx, faults>>

DeadCheck_AtMax ==
    /\ UNCHANGED <<init, cap, enc, late, call, dl>>
    /\ last_reset' = "none"
    /\ wpc = "check"
    /\ IF reset_counter >= OPTIGA_MAX_RESET
       THEN /\ Raise(apdu, -EIO)
            /\ wpc' = "get"
            /\ apdu' = NULL
            /\ last_path' = "dead"
            /\ UNCHANGED <<on_bus, xfer>>
       ELSE /\ wpc' = "transfer"
            /\ on_bus' = on_bus \cup {Worker}
            /\ xfer' = [xfer EXCEPT ![apdu] = "sent"]
            /\ UNCHANGED <<finished, raises, order, apdu, last_path>>
    /\ UNCHANGED <<apdu_queue, reset_counter, rx, err, cpc, nreset, nerrcode,
                   subx, faults>>

\* if (data->reset_counter > OPTIGA_MAX_RESET): reject, else start the transfer
DeadCheck ==
    /\ UNCHANGED <<init, cap, enc, late, call, dl>>
    /\ last_reset' = "none"
    /\ wpc = "check"
    /\ IF reset_counter > OPTIGA_MAX_RESET
       THEN /\ Raise(apdu, -EIO)
            /\ wpc' = "get"
            /\ apdu' = NULL
            /\ last_path' = "dead"
            /\ UNCHANGED <<on_bus, xfer>>
       ELSE /\ wpc' = "transfer"
            /\ on_bus' = on_bus \cup {Worker}
            /\ xfer' = [xfer EXCEPT ![apdu] = "sent"]
            /\ UNCHANGED <<finished, raises, order, apdu, last_path>>
    /\ UNCHANGED <<apdu_queue, reset_counter, rx, err, cpc, nreset, nerrcode,
                   subx, faults>>

\* optiga_transfer_apdu returns
Transfer ==
    /\ UNCHANGED <<init, cap, enc, late, last_reset, call, dl>>
    /\ wpc = "transfer"
    /\ \E snd \in optiga_nettran_send_apdu :
       \E rcv \in optiga_nettran_recv_apdu(rx[apdu]) :
          LET r == optiga_transfer_apdu(snd, rcv, rx[apdu]) IN
          /\ err' = r.err
          /\ rx' = [rx EXCEPT ![apdu] = r.rx]
          /\ xfer' = [xfer EXCEPT ![apdu] = IF r.err = 0 THEN "ok" ELSE "failed"]
    /\ on_bus' = on_bus \ {Worker}
    /\ wpc' = "transferred"
    /\ UNCHANGED <<apdu_queue, reset_counter, finished, apdu, cpc, order,
                   raises, nreset, nerrcode, subx, faults, last_path>>

\* err != 0: count the fault and enter optiga_reset
TransferFailed ==
    /\ UNCHANGED <<init, cap, enc, late, last_reset, call, dl>>
    /\ wpc = "transferred"
    /\ err # 0
    /\ reset_counter' = reset_counter + 1
    /\ faults' = faults + 1
    /\ on_bus' = on_bus \cup {Worker}
    /\ wpc' = "reset"
    /\ UNCHANGED <<apdu_queue, finished, rx, apdu, err, cpc, order, raises,
                   xfer, nreset, nerrcode, subx, last_path>>

\* variant of Reset that counts a failed reset as one more fault
Reset_CountFailure ==
    /\ UNCHANGED <<init, cap, enc, late, call, dl>>
    /\ wpc = "reset"
    /\ \E r \in optiga_reset :
          /\ err' = r
          /\ last_reset' = IF r = 0 THEN "ok" ELSE "failed"
          /\ reset_counter' = IF r = 0 THEN reset_counter ELSE reset_counter + 1
    /\ nreset' = nreset + 1
    /\ on_bus' = on_bus \ {Worker}
    /\ wpc' = "drain"
    /\ UNCHANGED <<apdu_queue, finished, rx, apdu, cpc, order,
                   raises, xfer, nerrcode, subx, faults, last_path>>

\* optiga_reset returns; its error is only logged
Reset ==
    /\ UNCHANGED <<init, cap, enc, late, call, dl>>
    /\ wpc = "reset"
    /\ \E r \in optiga_reset :
          /\ err' = r
          /\ last_reset' = IF r = 0 THEN "ok" ELSE "failed"
    /\ nreset' = nreset + 1
    /\ on_bus' = on_bus \ {Worker}
    /\ wpc' = "drain"
    /\ UNCHANGED <<apdu_queue, reset_counter, finished, rx, apdu, cpc, order,
                   raises, xfer, nerrcode, subx, faults, last_path>>

Drain_InFlightOnly ==
    /\ UNCHANGED <<init, cap, enc, last_reset, call, dl>>
    /\ late' = {}
    /\ wpc = "drain"
    /\ Raise(apdu, -EIO)
    /\ apdu' = NULL
    /\ wpc' = "get"
    /\ last_path' = "fault"
    /\ UNCHANGED <<apdu_queue, reset_counter, rx, err, cpc, on_bus, xfer,
                   nreset, nerrcode, subx, faults>>

\* one round of while (apdu != NULL): raise -EIO, k_fifo_get(K_NO_WAIT)
Drain ==
    /\ UNCHANGED <<init, cap, enc, last_reset, call, dl>>
    /\ late' = IF k_fifo_get(apdu_queue) = NULL THEN {} ELSE late
    /\ wpc = "drain"
    /\ Raise(apdu, -EIO)
    /\ apdu' = k_fifo_get(apdu_queue)
    /\ apdu_queue' = k_fifo_rest(apdu_queue)
    /\ wpc' = IF k_fifo_get(apdu_queue) = NULL THEN "get" ELSE "drain"
    /\ last_path' = "fault"
    /\ UNCHANGED <<reset_counter, rx, err, cpc, on_bus, xfer, nreset, nerrcode,
                   subx, faults>>

TransferOk_SignalThenQuery ==
    /\ UNCHANGED <<init, cap, enc, late, last_reset, call, dl>>
    /\ wpc = "transferred"
    /\ err = 0
    /\ reset_counter' = 0
    /\ faults' = 0
    /\ IF optiga_apdu_is_error(rx[apdu])
       THEN /\ Raise(apdu, rx[apdu].sta)
            /\ wpc' = "get_error_code"
            /\ on_bus' = on_bus \cup {Worker}
            /\ UNCHANGED <<apdu, last_path>>
       ELSE /\ Raise(apdu, OPTIGA_STATUS_CODE_SUCCESS)
            /\ wpc' = "get"
            /\ apdu' = NULL
            /\ last_path' = "success"
            /\ UNCHANGED on_bus
    /\ UNCHANGED <<apdu_queue, rx, err, cpc, xfer, nreset, nerrcode, subx>>

TransferOk_KeepCounterOnError ==
    /\ UNCHANGED <<init, cap, enc, late, last_reset, call, dl>>
    /\ wpc = "transferred"
    /\ err = 0
    /\ faults' = 0
    /\ IF optiga_apdu_is_error(rx[apdu])
       THEN /\ wpc' = "get_error_code"
            /\ on_bus' = on_bus \cup {Worker}
            /\ UNCHANGED <<finished, raises, order, apdu, last_path,
                           reset_counter>>
       ELSE /\ Raise(apdu, OPTIGA_STATUS_CODE_SUCCESS)
            /\ reset_counter' = 0
            /\ wpc' = "get"
            /\ apdu' = NULL
            /\ last_path' = "success"
            /\ UNCHANGED on_bus
    /\ UNCHANGED <<apdu_queue, rx, err, cpc, xfer, nreset, nerrcode, subx>>

\* err == 0: zero the counter and look at the status byte of the response
TransferOk ==
    /\ UNCHANGED <<init, cap, enc, late, last_reset, call, dl>>
    /\ wpc = "transferred"
    /\ err = 0
    /\ reset_counter' = 0
    /\ faults' = 0
    /\ IF optiga_apdu_is_error(rx[apdu])
       THEN /\ wpc' = "get_error_code"
            /\ on_bus' = on_bus \cup {Worker}
            /\ UNCHANGED <<finished, raises, order, apdu, last_path>>
       ELSE /\ Raise(apdu, OPTIGA_STATUS_CODE_SUCCESS)
            /\ wpc' = "get"
            /\ apdu' = NULL
            /\ last_path' = "success"
            /\ UNCHANGED on_bus
    /\ UNCHANGED <<apdu_queue, rx, err, cpc, xfer, nreset, nerrcode, subx>>

GetErrorCode_Fault ==
    /\ UNCHANGED <<init, cap, enc, late, last_reset, call, dl>>
    /\ wpc = "get_error_code"
    /\ \E snd \in optiga_nettran_send_apdu :
       \E rcv \in ErrorCodeRecv :
          LET r == optiga_get_error_code(snd, rcv, 0) IN
          /\ err' = r.err
          /\ subx' = SubExchange(snd, rcv, r)
          /\ IF r.err # 0
             THEN /\ reset_counter' = reset_counter + 1
                  /\ wpc' = "reset"
                  /\ UNCHANGED <<finished, raises, order, apdu, on_bus,
                                 last_path>>
             ELSE /\ Raise(apdu, r.err_code)
                  /\ wpc' = "get"
                  /\ apdu' = NULL
                  /\ on_bus' = on_bus \ {Worker}
                  /\ last_path' = "error"
                  /\ UNCHANGED reset_counter
    /\ nerrcode' = nerrcode + 1
    /\ UNCHANGED <<apdu_queue, rx, cpc, xfer, nreset, faults>>

\* optiga_get_error_code returns: raise its error or the error code
GetErrorCode ==
    /\ UNCHANGED <<init, cap, enc, late, last_reset, call, dl>>
    /\ wpc = "get_error_code"
    /\ \E snd \in optiga_nettran_send_apdu :
       \E rcv \in ErrorCodeRecv :
          LET r == optiga_get_error_code(snd, rcv, 0) IN
          /\ err' = r.err
          /\ subx' = SubExchange(snd, rcv, r)
          /\ IF r.err # 0
             THEN Raise(apdu, r.err)
             ELSE Raise(apdu, r.err_code)
    /\ nerrcode' = nerrcode + 1
    /\ on_bus' = on_bus \ {Worker}
    /\ wpc' = "get"
    /\ apdu' = NULL
    /\ last_path' = "error"
    /\ UNCHANGED <<apdu_queue, reset_counter, rx, cpc, xfer, nreset, faults>>

WorkerNext ==
    \/ Dequeue
    \/ DeadCheck
    \/ Transfer
    \/ TransferFailed
    \/ Reset
    \/ Drain
    \/ TransferOk
    \/ GetErrorCode

CallerNext ==
    \E c \in Callers :
        \/ EnqueueInit(c)
        \/ EnqueuePut(c)
        \/ WaitDone(c)

Next == WorkerNext \/ CallerNext

Spec == Init /\ [][Next]_vars

\* the worker is scheduled and every transport call returns
LiveSpec == Spec /\ WF_vars(WorkerNext)

(***************************************************************************)
(* The dispatcher against a peer that fails every transfer and every       *)
(* reset, with callers that submit one after another                       *)
(***************************************************************************)
\* optiga_transfer_apdu returns an error
TransferFails == Transfer /\ err' # 0

\* optiga_reset returns an error
ResetFails == Reset /\ err' # 0

\* a caller submits once every earlier submission has returned
SubmitInTurn(c) ==
    /\ \A o \in Callers \ {c} : cpc[o] = "idle"
    /\ EnqueueInit(c)

FailWorkerNext ==
    \/ Dequeue
    \/ DeadCheck
    \/ TransferFails
    \/ TransferFailed
    \/ ResetFails
    \/ Drain

FailCallerNext ==
    \E c \in Callers :
        \/ SubmitInTurn(c)
        \/ EnqueuePut(c)
        \/ WaitDone(c)

FailNext == FailWorkerNext \/ FailCallerNext

FailSpec == Init /\ [][FailNext]_vars

(***************************************************************************)
(* Boot: the kernel calls optiga_init once, before any caller runs         *)
(***************************************************************************)
\* the state before optiga_init: static data is zeroed, no worker thread
BootInit ==
    /\ apdu_queue = <<>>
    /\ reset_counter = 0
    /\ finished = [d \in Descs |-> [signaled |-> 0, result |-> 0]]
    /\ rx = [d \in Descs |->
                [len |-> TMP_BUF_SIZE, sta |-> OPTIGA_TRUSTX_CMD_GET_DATA_OBJECT]]
    /\ wpc = "off"
    /\ apdu = NULL
    /\ err = 0
    /\ cpc = [c \in Callers |-> "idle"]
    /\ on_bus = {}
    /\ order = <<>>
    /\ raises = [d \in Descs |-> 0]
    /\ xfer = [d \in Descs |-> "none"]
    /\ nreset = 0
    /\ nerrcode = 0
    /\ subx = NoSubExchange
    /\ faults = 0
    /\ last_path = "none"
    /\ init = InitCall("boot", NULL, GoodEnv,
                       [ret |-> 0, log |-> <<>>, reset |-> NoReset])
    /\ cap = [d \in Descs |-> TMP_BUF_SIZE]
    /\ enc = [c \in Callers |-> NoEncoder]
    /\ late = {}
    /\ last_reset = "none"
    /\ call = NoCall
    /\ dl = NoDataLink

\* optiga_init: the worker exists only if it returns 0
OptigaInit ==
    /\ init.pc = "boot"
    /\ \E i2c_master \in I2cBindings :
       \E e \in ResetEnv :
          LET r == optiga_init(i2c_master, e) IN
          /\ init' = InitCall("returned", i2c_master, e, r)
          /\ reset_counter' = 0
          /\ IF r.ret = 0
             THEN apdu_queue' = <<>> /\ wpc' = "get"
             ELSE UNCHANGED <<apdu_queue, wpc>>
    /\ UNCHANGED <<finished, rx, apdu, err, cpc, on_bus, order, raises, xfer,
                   nreset, nerrcode, subx, faults, last_path, cap, enc, late,
                   last_reset, call, dl>>

BootNext == OptigaInit \/ Next

BootSpec == BootInit /\ [][BootNext]_vars

(***************************************************************************)
(* optiga_init called again on the running instance                        *)
(***************************************************************************)
\* optiga_init on an initialised instance: the counter is zeroed, the reset
\* runs in the calling thread, k_fifo_init empties the fifo without
\* signalling what was linked in it, and k_thread_create is applied to the
\* thread object and stack of the running worker, which either goes on or
\* starts again at its entry
SecondInit ==
    /\ init.pc = "returned"
    /\ init.ret = 0
    /\ \E r \in {optiga_init(init.i2c_master, e) : e \in ResetEnv} :
          /\ reset_counter' = 0
          /\ faults' = 0
          /\ IF r.ret = 0
             THEN /\ apdu_queue' = <<>>
                  /\ \E restarted \in BOOLEAN :
                        IF restarted
                        THEN wpc' = "get" /\ apdu' = NULL /\ on_bus' = {}
                        ELSE UNCHANGED <<wpc, apdu, on_bus>>
             ELSE UNCHANGED <<apdu_queue, wpc, apdu, on_bus>>
    /\ UNCHANGED <<finished, rx, err, cpc, order, raises, xfer, nreset,
                   nerrcode, subx, last_path, init, cap, enc, late, last_reset,
                   call, dl>>

ReinitNext == SecondInit \/ Next

ReinitSpec == Init /\ [][ReinitNext]_vars

(***************************************************************************)
(* Command encoders: optrust_* build the APDU, submit it through           *)
(* cmds_submit_apdu and parse the response                                 *)
(***************************************************************************)
Encoders ==
    {"data_get", "data_set", "ecdsa_sign", "ecdsa_verify", "ecc_gen_keys",
     "sha256"}

\* enum OPTIGA_TRUSTX_CMD: the first byte of the command APDU
OPTIGA_TRUSTX_CMD(kind) ==
    CASE kind = "data_get" -> OPTIGA_TRUSTX_CMD_GET_DATA_OBJECT
      [] kind = "data_set" -> 130
      [] kind = "sha256" -> 176
      [] kind = "ecdsa_sign" -> 177
      [] kind = "ecdsa_verify" -> 178
      [] kind = "ecc_gen_keys" -> 184

\* tx_len of the APDU each encoder builds (4 bytes of data for
\* optrust_data_set, a 32-byte digest and a 64-byte signature for ECDSA)
TxLen(kind) ==
    CASE kind = "data_get" -> 10
      [] kind = "data_set" -> 12
      [] kind = "sha256" -> 13
      [] kind = "ecdsa_sign" -> 44
      [] kind = "ecdsa_verify" -> 117
      [] kind = "ecc_gen_keys" -> 13

\* optrust_data_get and optrust_ecc_gen_keys_oid receive over the command
RxAliasesTx(kind) == kind \in {"data_get", "ecc_gen_keys"}

\* ctx->apdu.rx_len at submission
RxCapacity(kind, apdu_buf_len) ==
    IF RxAliasesTx(kind) THEN apdu_buf_len ELSE apdu_buf_len - TxLen(kind)

\* ctx->apdu_buf_len: just enough for the command, or a large buffer
ApduBufLens(kind) == {TxLen(kind), TMP_BUF_SIZE}

\* what the parsing part of an encoder reads besides the descriptor: the
\* out_len field of the response header, the size of the caller's output
\* buffer, and whether asn1_to_ecdsa_rs succeeds
ParseInputs == [out_len : {0, 35}, len : {0, 32}, success : BOOLEAN]

OPTIGA_TRUSTX_OUT_DATA_OFFSET == 4

EncReturn(ret, copied) == [ret |-> ret, copied |-> copied]

optrust_data_get_PassCode(result_code, r, p) ==
    IF result_code # OPTIGA_STATUS_CODE_SUCCESS
    THEN EncReturn(result_code, FALSE)
    ELSE IF p.out_len # r.len - OPTIGA_TRUSTX_OUT_DATA_OFFSET
    THEN EncReturn(-EIO, FALSE)
    ELSE IF p.out_len > p.len
    THEN EncReturn(-ENOMEM, FALSE)
    ELSE EncReturn(0, TRUE)

\* optrust_data_get after cmds_submit_apdu returned result_code
optrust_data_get(result_code, r, p) ==
    IF result_code # OPTIGA_STATUS_CODE_SUCCESS
    THEN EncReturn(-EIO, FALSE)
    ELSE IF p.out_len # r.len - OPTIGA_TRUSTX_OUT_DATA_OFFSET
    THEN EncReturn(-EIO, FALSE)
    ELSE IF p.out_len > p.len
    THEN EncReturn(-ENOMEM, FALSE)
    ELSE EncReturn(0, TRUE)

\* optrust_data_set after cmds_submit_apdu returned result_code
optrust_data_set(result_code, r, p) ==
    IF result_code # OPTIGA_STATUS_CODE_SUCCESS
    THEN EncReturn(-EIO, FALSE)
    ELSE EncReturn(0, FALSE)

\* optrust_ecdsa_sign_oid: asn1_to_ecdsa_rs writes into signature
optrust_ecdsa_sign_oid(result_code, r, p) ==
    IF result_code # OPTIGA_STATUS_CODE_SUCCESS
    THEN EncReturn(-EIO, FALSE)
    ELSE IF p.out_len # r.len - OPTIGA_TRUSTX_OUT_DATA_OFFSET
    THEN EncReturn(-EIO, FALSE)
    ELSE IF ~p.success
    THEN EncReturn(-EIO, TRUE)
    ELSE EncReturn(0, TRUE)

\* optrust_ecdsa_verify_oid has no output buffer
optrust_ecdsa_verify_oid(result_code, r, p) ==
    IF result_code # OPTIGA_STATUS_CODE_SUCCESS
    THEN EncReturn(-EIO, FALSE)
    ELSE EncReturn(0, FALSE)

\* optrust_ecc_gen_keys_oid
optrust_ecc_gen_keys_oid(result_code, r, p) ==
    IF result_code # OPTIGA_STATUS_CODE_SUCCESS
    THEN EncReturn(-EIO, FALSE)
    ELSE IF p.out_len # r.len - OPTIGA_TRUSTX_OUT_DATA_OFFSET
    THEN EncReturn(-EIO, FALSE)
    ELSE EncReturn(0, TRUE)

\* optrust_sha256_oid: out_len is a u16_t and loses tag and length
optrust_sha256_oid(result_code, r, p) ==
    IF result_code # OPTIGA_STATUS_CODE_SUCCESS
    THEN EncReturn(-EIO, FALSE)
    ELSE IF p.len < (p.out_len - 3) % 65536
    THEN EncReturn(-ENOMEM, FALSE)
    ELSE EncReturn(0, TRUE)

\* the encoder of the given kind
optrust(kind, result_code, r, p) ==
    CASE kind = "data_get" -> optrust_data_get(result_code, r, p)
      [] kind = "data_set" -> optrust_data_set(result_code, r, p)
      [] kind = "ecdsa_sign" -> optrust_ecdsa_sign_oid(result_code, r, p)
      [] kind = "ecdsa_verify" -> optrust_ecdsa_verify_oid(result_code, r, p)
      [] kind = "ecc_gen_keys" -> optrust_ecc_gen_keys_oid(result_code, r, p)
      [] kind = "sha256" -> optrust_sha256_oid(result_code, r, p)

\* length of a NIST P-256 public key
OPTRUST_NIST_P256_PUB_KEY_LEN == 64

\* *pub_key_len the caller of optrust_ecc_gen_keys_oid can pass
PubKeyLens == {0, OPTRUST_NIST_P256_PUB_KEY_LEN}

\* the check optrust_ecc_gen_keys_oid makes before it builds the APDU
optrust_ecc_gen_keys_check(pub_key_len) ==
    IF pub_key_len < OPTRUST_NIST_P256_PUB_KEY_LEN THEN -EINVAL ELSE 0

\* optrust_ecc_gen_keys_oid returns -EINVAL without submitting anything
EncodeReject(c) ==
    /\ cpc[c] = "idle"
    /\ init.pc = "returned"
    /\ \E pub_key_len \in PubKeyLens :
          /\ optrust_ecc_gen_keys_check(pub_key_len) # 0
          /\ enc' = [enc EXCEPT ![c] =
                        [kind |-> "ecc_gen_keys",
                         ret |-> optrust_ecc_gen_keys_check(pub_key_len),
                         copied |-> FALSE, queued |-> FALSE]]
    /\ UNCHANGED <<apdu_queue, reset_counter, finished, rx, wpc, apdu, err,
                   cpc, on_bus, order, raises, xfer, nreset, nerrcode, subx,
                   faults, last_path, init, cap, late, last_reset, call, dl>>


\* the encoder sets up ctx->apdu; enqueue_apdu initialises the signal
EncodeSubmit(c, kind, apdu_buf_len) ==
    /\ cpc[c] = "idle"
    /\ init.pc = "returned"
    /\ rx' = [rx EXCEPT ![c] =
                 [len |-> RxCapacity(kind, apdu_buf_len),
                  sta |-> IF RxAliasesTx(kind)
                          THEN OPTIGA_TRUSTX_CMD(kind) ELSE 0]]
    /\ cap' = [cap EXCEPT ![c] = RxCapacity(kind, apdu_buf_len)]
    /\ enc' = [enc EXCEPT ![c] = [kind |-> kind, ret |-> 0, copied |-> FALSE,
                                  queued |-> TRUE]]
    /\ finished' = [finished EXCEPT ![c] = k_poll_signal_init(@)]
    /\ raises' = [raises EXCEPT ![c] = 0]
    /\ xfer' = [xfer EXCEPT ![c] = "none"]
    /\ cpc' = [cpc EXCEPT ![c] = "put"]
    /\ UNCHANGED <<apdu_queue, reset_counter, wpc, apdu, err, on_bus, order,
                   nreset, nerrcode, subx, faults, last_path, init, late,
                   last_reset, call, dl>>

\* k_poll returns the signal's result and the encoder parses the response
EncodeReturn(c) ==
    /\ cpc[c] = "wait"
    /\ finished[c].signaled = 1
    /\ \E p \in ParseInputs :
          LET r == optrust(enc[c].kind, finished[c].result, rx[c], p) IN
          enc' = [enc EXCEPT ![c].ret = r.ret, ![c].copied = r.copied]
    /\ cpc' = [cpc EXCEPT ![c] = "idle"]
    /\ UNCHANGED <<apdu_queue, reset_counter, finished, rx, wpc, apdu, err,
                   on_bus, order, raises, xfer, nreset, nerrcode, subx, faults,
                   last_path, init, cap, late, last_reset, call, dl>>

ClientCallerNext ==
    \E c \in EncCallers :
        \/ \E kind \in Encoders :
           \E apdu_buf_len \in ApduBufLens(kind) :
              EncodeSubmit(c, kind, apdu_buf_len)
        \/ EncodeReject(c)
        \/ EnqueuePut(c)
        \/ EncodeReturn(c)

ClientNext == WorkerNext \/ ClientCallerNext

ClientSpec == Init /\ [][ClientNext]_vars

(***************************************************************************)
(* optiga_get_error_code called on its own                                 *)
(***************************************************************************)
\* the variables of the dispatcher and its clients
driver == <<apdu_queue, reset_counter, finished, rx, wpc, apdu, err, cpc,
            on_bus, order, raises, xfer, nreset, nerrcode, subx, faults,
            last_path, init, cap, enc, late, last_reset>>

\* what *err_code can hold when optiga_get_error_code is entered
ErrCodeInputs == {0, 171}

\* a call of optiga_get_error_code with what the transport will answer
GetErrorCodeCalls ==
    [fn : {"optiga_get_error_code"}, pc : {"called"},
     snd : optiga_nettran_send_apdu, rcv : ErrorCodeRecv,
     err_code : ErrCodeInputs, ret : {0}, out : ErrCodeInputs, sends : {0},
     recvs : {0}]

GetErrorCodeInit ==
    /\ DriverInit
    /\ dl = NoDataLink
    /\ call \in {c \in GetErrorCodeCalls : c.out = c.err_code}

\* the call runs: one send, one receive if the send went through
GetErrorCodeReturn ==
    /\ call.fn = "optiga_get_error_code"
    /\ call.pc = "called"
    /\ LET r == optiga_get_error_code(call.snd, call.rcv, call.err_code) IN
       call' = [call EXCEPT !.pc = "returned",
                            !.ret = r.err,
                            !.out = r.err_code,
                            !.sends = 1,
                            !.recvs = IF call.snd = 0 THEN 1 ELSE 0]
    /\ UNCHANGED <<driver, dl>>

GetErrorCodeNext == GetErrorCodeReturn

GetErrorCodeSpec == GetErrorCodeInit /\ [][GetErrorCodeNext]_vars


(***************************************************************************)
(* optiga_reg_read: register select and read, each tried up to five times  *)
(***************************************************************************)
\* attempts of each of the two for loops
RegAttempts == 5

\* what i2c_write and i2c_read return: 0 on ACK, an error on NACK
I2cResults == {0, -EIO}

\* for(i = 0; i < 5; i++) { res = ...; if (res == 0) { acked = true; break; } }
\* over the results the bus gives to attempts i, i + 1, ...
RECURSIVE RegLoop(_, _, _)
RegLoop(results, i, res) ==
    IF i > RegAttempts
    THEN [acked |-> FALSE, res |-> res, tries |-> RegAttempts]
    ELSE IF results[i] = 0
    THEN [acked |-> TRUE, res |-> 0, tries |-> i]
    ELSE RegLoop(results, i + 1, results[i])

\* variant of optiga_reg_read that reads although no select was acknowledged
optiga_reg_read_IgnoreSelectNack(writes, reads) ==
    LET w == RegLoop(writes, 1, 0)
        r == RegLoop(reads, 1, w.res)
    IN  IF ~r.acked
        THEN [ret |-> -EIO, nwrite |-> w.tries, nread |-> r.tries]
        ELSE [ret |-> r.res, nwrite |-> w.tries, nread |-> r.tries]

\* variant of optiga_reg_read whose loops go on after an acknowledged attempt
optiga_reg_read_NoBreak(writes, reads) ==
    LET w == RegLoop(writes, 1, 0) IN
    IF ~w.acked
    THEN [ret |-> -EIO, nwrite |-> RegAttempts, nread |-> 0]
    ELSE LET r == RegLoop(reads, 1, w.res) IN
         IF ~r.acked
         THEN [ret |-> -EIO, nwrite |-> RegAttempts, nread |-> RegAttempts]
         ELSE [ret |-> r.res, nwrite |-> RegAttempts, nread |-> RegAttempts]


\* optiga_reg_read: the return value and the attempts made in each loop
optiga_reg_read(writes, reads) ==
    LET w == RegLoop(writes, 1, 0) IN
    IF ~w.acked
    THEN [ret |-> -EIO, nwrite |-> w.tries, nread |-> 0]
    ELSE LET r == RegLoop(reads, 1, w.res) IN
         IF ~r.acked
         THEN [ret |-> -EIO, nwrite |-> w.tries, nread |-> r.tries]
         ELSE [ret |-> r.res, nwrite |-> w.tries, nread |-> r.tries]

\* a call of optiga_reg_read with what the bus answers to each attempt
RegReadCalls ==
    [fn : {"optiga_reg_read"}, pc : {"called"},
     writes : [1 .. RegAttempts -> I2cResults],
     reads : [1 .. RegAttempts -> I2cResults],
     ret : {0}, nwrite : {0}, nread : {0}]

RegReadInit ==
    /\ DriverInit
    /\ dl = NoDataLink
    /\ call \in RegReadCalls

RegReadReturn ==
    /\ call.fn = "optiga_reg_read"
    /\ call.pc = "called"
    /\ LET r == optiga_reg_read(call.writes, call.reads) IN
       call' = [call EXCEPT !.pc = "returned",
                            !.ret = r.ret,
                            !.nwrite = r.nwrite,
                            !.nread = r.nread]
    /\ UNCHANGED <<driver, dl>>

RegReadNext == RegReadReturn

RegReadSpec == RegReadInit /\ [][RegReadNext]_vars


(***************************************************************************)
(* Network and transport layer: transmit of one APDU in fragments          *)
(***************************************************************************)
\* protocol limit of the data register length, and the largest one explored
OPTIGA_DATA_REG_LEN_MIN == 16
MaxDataRegLen == 17

\* longest APDU explored
MaxApduLen == 23

\* bytes a frame spends on the data link header and checksum, and on the
\* packet control byte
DATA_LINK_OVERHEAD == 5
NETTRAN_OVERHEAD == 1

\* largest fragment of an APDU that fits a frame
MTU(data_reg_len) == data_reg_len - DATA_LINK_OVERHEAD - NETTRAN_OVERHEAD

\* the bytes of an APDU of n bytes, each position with its own value
ApduBytes(n) == [i \in 1 .. n |-> i]

\* size of the next fragment when remaining bytes are still to be sent
FragmentLen_OverMtu(remaining, mtu) ==
    IF remaining <= mtu + 1 THEN remaining ELSE mtu + 1

FragmentLen_UnderMtu(remaining, mtu) ==
    IF remaining <= mtu - 1 THEN remaining ELSE mtu - 1

FragmentLen(remaining, mtu) == IF remaining <= mtu THEN remaining ELSE mtu

\* chain flag of the packet control byte of a fragment
ChainFlag(first, last) ==
    IF first /\ last THEN "ONLY"
    ELSE IF first THEN "FIRST"
    ELSE IF last THEN "LAST"
    ELSE "MIDDLE"

\* what the data link send of one frame returns
DlSendResults == {0, -EIO}

\* a transmit of an APDU that has been started and has sent nothing yet
NettranSendCalls ==
    [fn : {"optiga_nettran_send_apdu"}, pc : {"sending"},
     apdu_len : 1 .. MaxApduLen,
     data_reg_len : OPTIGA_DATA_REG_LEN_MIN .. MaxDataRegLen,
     offset : {0}, frames : {<<>>}, err : {0}]

NettranSendInit ==
    /\ DriverInit
    /\ dl = NoDataLink
    /\ call \in NettranSendCalls

\* the next fragment goes to the data link; the transmit returns at the
\* first data link failure or after the last fragment
NettranSendFragment ==
    /\ call.fn = "optiga_nettran_send_apdu"
    /\ call.pc = "sending"
    /\ LET mtu == MTU(call.data_reg_len)
           remaining == call.apdu_len - call.offset
           n == FragmentLen(remaining, mtu)
           frame == [chain |-> ChainFlag(call.offset = 0, n = remaining),
                     data |-> SubSeq(ApduBytes(call.apdu_len),
                                     call.offset + 1, call.offset + n)]
       IN  \E res \in DlSendResults :
              call' = [call EXCEPT
                          !.frames = Append(@, frame),
                          !.offset = @ + n,
                          !.err = res,
                          !.pc = IF res # 0 \/ n = remaining
                                 THEN "returned" ELSE "sending"]
    /\ UNCHANGED <<driver, dl>>

NettranSendNext == NettranSendFragment

NettranSendSpec == NettranSendInit /\ [][NettranSendNext]_vars


(***************************************************************************)
(* Data link layer: dl_init and dl_recv                                    *)
(***************************************************************************)
\* retransmissions of last_tx_frame before a receive fails upward
N_DL == 3

\* sequence numbers are counted modulo this
DL_SEQ_MOD == 4

\* no frame delivered since dl_init
NoSeq == -1

\* frames phy_read_data can hand to dl_recv; a receive timeout counts as a
\* frame that fails the CRC
DlFrames ==
    [crc_ok : BOOLEAN, type : {"DATA", "CONTROL"}, seq : 0 .. DL_SEQ_MOD - 1]

NoFrame == [crc_ok |-> FALSE, type |-> "NONE", seq |-> 0]

\* the layer after dl_init: counters reset, no SYNC pending
dl_init ==
    [pc |-> "idle", rx_seq |-> 0, prev |-> NoSeq, retries |-> 0,
     sync_pending |-> FALSE, ret |-> 0, event |-> "none", frame |-> NoFrame]

\* variant of dl_recv_frame that does not verify the CRC
dl_recv_frame_NoCrc(d, f) ==
    LET g == [d EXCEPT !.frame = f] IN
    IF f.type = "CONTROL"
    THEN [g EXCEPT !.event = "control"]
    ELSE IF f.seq = d.rx_seq
    THEN [g EXCEPT !.event = "delivered", !.pc = "idle", !.ret = 0,
                   !.rx_seq = (@ + 1) % DL_SEQ_MOD, !.prev = f.seq]
    ELSE IF f.seq = d.prev
    THEN [g EXCEPT !.event = "reack"]
    ELSE [g EXCEPT !.event = "sync", !.pc = "idle", !.ret = -EIO,
                   !.sync_pending = TRUE]

\* variant of dl_recv_frame that keeps retransmitting after N_DL retries
dl_recv_frame_RetryForever(d, f) ==
    LET g == [d EXCEPT !.frame = f] IN
    IF ~f.crc_ok
    THEN IF d.retries < N_DL
         THEN [g EXCEPT !.event = "retry", !.retries = @ + 1]
         ELSE [g EXCEPT !.event = "retry"]
    ELSE IF f.type = "CONTROL"
    THEN [g EXCEPT !.event = "control"]
    ELSE IF f.seq = d.rx_seq
    THEN [g EXCEPT !.event = "delivered", !.pc = "idle", !.ret = 0,
                   !.rx_seq = (@ + 1) % DL_SEQ_MOD, !.prev = f.seq]
    ELSE IF f.seq = d.prev
    THEN [g EXCEPT !.event = "reack"]
    ELSE [g EXCEPT !.event = "sync", !.pc = "idle", !.ret = -EIO,
                   !.sync_pending = TRUE]


\* one round of the loop of dl_recv on the frame f read from the PHY
dl_recv_frame(d, f) ==
    LET g == [d EXCEPT !.frame = f] IN
    IF ~f.crc_ok
    THEN IF d.retries < N_DL
         THEN [g EXCEPT !.event = "retry", !.retries = @ + 1]
         ELSE [g EXCEPT !.event = "sync", !.pc = "idle", !.ret = -EIO,
                        !.sync_pending = TRUE]
    ELSE IF f.type = "CONTROL"
    THEN [g EXCEPT !.event = "control"]
    ELSE IF f.seq = d.rx_seq
    THEN [g EXCEPT !.event = "delivered", !.pc = "idle", !.ret = 0,
                   !.rx_seq = (@ + 1) % DL_SEQ_MOD, !.prev = f.seq]
    ELSE IF f.seq = d.prev
    THEN [g EXCEPT !.event = "reack"]
    ELSE [g EXCEPT !.event = "sync", !.pc = "idle", !.ret = -EIO,
                   !.sync_pending = TRUE]

DlInit ==
    /\ DriverInit
    /\ call = NoCall
    /\ dl = dl_init

\* the layer above synchronises the link again after a failed receive
DlResync ==
    /\ dl.pc = "idle"
    /\ dl.sync_pending
    /\ dl' = dl_init
    /\ UNCHANGED <<driver, call>>

\* dl_recv is entered
DlRecvCall ==
    /\ dl.pc = "idle"
    /\ ~dl.sync_pending
    /\ dl' = [dl EXCEPT !.pc = "recv", !.retries = 0, !.event = "none",
                        !.frame = NoFrame]
    /\ UNCHANGED <<driver, call>>

\* dl_recv reads one frame and handles it
DlRecvFrame ==
    /\ dl.pc = "recv"
    /\ \E f \in DlFrames : dl' = dl_recv_frame(dl, f)
    /\ UNCHANGED <<driver, call>>

DlNext ==
    \/ DlResync
    \/ DlRecvCall
    \/ DlRecvFrame

DlSpec == DlInit /\ [][DlNext]_vars


(***************************************************************************)
(* optrust_data_get: parsing of the response, on its own                   *)
(***************************************************************************)
\* what cmds_submit_apdu can return: success, a worker error, an error code
SubmitResults == {0, -EIO, 255}

\* the response as the worker left it in the descriptor
DataGetResponses == [len : {4, 20, 39}, sta : StaBytes]

\* the out_len field of the response header and the caller's *len
DataGetParse == [out_len : {0, 16, 35}, len : {0, 32}, success : {TRUE}]

\* a call of optrust_data_get whose cmds_submit_apdu has returned
DataGetCalls ==
    [fn : {"optrust_data_get"}, pc : {"submitted"},
     result_code : SubmitResults, r : DataGetResponses, p : DataGetParse,
     ret : {0}, len : {0, 32}, ncopied : {0}]

DataGetInit ==
    /\ DriverInit
    /\ dl = NoDataLink
    /\ call \in {c \in DataGetCalls : c.len = c.p.len}

\* the response is parsed: memcpy(buf, rx_buf, out_len); *len = out_len
DataGetReturn ==
    /\ call.fn = "optrust_data_get"
    /\ call.pc = "submitted"
    /\ LET e == optrust_data_get(call.result_code, call.r, call.p) IN
       call' = [call EXCEPT
                   !.pc = "returned",
                   !.ret = e.ret,
                   !.ncopied = IF e.copied THEN call.p.out_len ELSE 0,
                   !.len = IF e.ret = 0 THEN call.p.out_len ELSE @]
    /\ UNCHANGED <<driver, dl>>

DataGetNext == DataGetReturn

DataGetSpec == DataGetInit /\ [][DataGetNext]_vars


\* the bounded deadline of a receive expires: the read gives no valid frame
DlRecvTimeout ==
    /\ dl.pc = "recv"
    /\ \E f \in DlFrames : ~f.crc_ok /\ dl' = dl_recv_frame(dl, f)
    /\ UNCHANGED <<driver, call>>

\* a receive cannot be kept from its deadline forever
DlLiveSpec == DlSpec /\ WF_vars(DlRecvTimeout)


(***************************************************************************)
(* Network and transport layer: receive of one APDU from a packet chain    *)
(***************************************************************************)
\* largest capacity of the caller's rx buffer explored
MaxRxCapacity == 4

\* chain flag and fragment length of a packet the data link can deliver
Packets == [chain : {"ONLY", "FIRST", "MIDDLE", "LAST"}, n : {1, 2}]

\* what the data link receive of one frame returns
DlRecvResults == {0, -EIO}

\* the receive ends with an I/O error, nothing is reported as received
NettranRecvFail(c, res, pkt) ==
    [c EXCEPT !.pc = "returned", !.err = -EIO, !.res = res, !.pkt = pkt]

\* variant of nettran_recv_packet that takes any packet as start of a chain
nettran_recv_packet_AnyFirst(c, res, pkt) ==
    LET data == [i \in 1 .. pkt.n |-> Len(c.pkts) + 1]
        d == [c EXCEPT !.res = res, !.pkt = pkt,
                       !.pkts = Append(@, [chain |-> pkt.chain,
                                           data |-> data])]
    IN  IF res # 0
        THEN [NettranRecvFail(c, res, pkt) EXCEPT !.err = res]
        ELSE IF Len(c.buf) + pkt.n > c.capacity
        THEN NettranRecvFail(d, res, pkt)
        ELSE IF pkt.chain \in {"ONLY", "LAST"}
        THEN [d EXCEPT !.buf = @ \o data, !.pc = "returned", !.err = 0,
                       !.delivered = TRUE, !.len = Len(c.buf) + pkt.n]
        ELSE [d EXCEPT !.buf = @ \o data, !.open = TRUE]

\* one round of the receive loop: the data link returned res and, when
\* res = 0, the packet pkt
nettran_recv_packet(c, res, pkt) ==
    LET data == [i \in 1 .. pkt.n |-> Len(c.pkts) + 1]
        d == [c EXCEPT !.res = res, !.pkt = pkt,
                       !.pkts = Append(@, [chain |-> pkt.chain,
                                           data |-> data])]
    IN  IF res # 0
        THEN [NettranRecvFail(c, res, pkt) EXCEPT !.err = res]
        ELSE IF ~c.open /\ pkt.chain \notin {"FIRST", "ONLY"}
        THEN NettranRecvFail(d, res, pkt)
        ELSE IF c.open /\ pkt.chain \notin {"MIDDLE", "LAST"}
        THEN NettranRecvFail(d, res, pkt)
        ELSE IF Len(c.buf) + pkt.n > c.capacity
        THEN NettranRecvFail(d, res, pkt)
        ELSE IF pkt.chain \in {"ONLY", "LAST"}
        THEN [d EXCEPT !.buf = @ \o data, !.pc = "returned", !.err = 0,
                       !.delivered = TRUE, !.len = Len(c.buf) + pkt.n]
        ELSE [d EXCEPT !.buf = @ \o data, !.open = TRUE]

\* a receive that has been started: nothing received, *len is the capacity
NettranRecvCalls ==
    [fn : {"optiga_nettran_recv_apdu"}, pc : {"receiving"},
     capacity : 1 .. MaxRxCapacity, len : 1 .. MaxRxCapacity,
     open : {FALSE}, buf : {<<>>}, pkts : {<<>>}, delivered : {FALSE},
     err : {0}, res : {0}, pkt : {[chain |-> "NONE", n |-> 0]}]

NettranRecvInit ==
    /\ DriverInit
    /\ dl = NoDataLink
    /\ call \in {c \in NettranRecvCalls : c.len = c.capacity}

NettranRecvPacket ==
    /\ call.fn = "optiga_nettran_recv_apdu"
    /\ call.pc = "receiving"
    /\ \E res \in DlRecvResults :
       \E pkt \in Packets :
          call' = nettran_recv_packet(call, res, pkt)
    /\ UNCHANGED <<driver, dl>>

NettranRecvNext == NettranRecvPacket

NettranRecvSpec == NettranRecvInit /\ [][NettranRecvNext]_vars


(***************************************************************************)
(* The command APDU each Trust X encoder builds                            *)
(***************************************************************************)
OPTIGA_TRUSTX_IN_DATA_OFFSET == 4
OPTIGA_TRUSTX_IN_LEN_MAX == 65535
\* set_tlv, set_tlv_u8, set_tlv_u16: the number of bytes each writes
set_tlv(val_len) == val_len + 3
set_tlv_u8 == 4
set_tlv_u16 == 5

\* cmds_set_apdu_header: the value of the 16-bit length field it stores
\* (the parameter is a u16_t) ; it writes OPTIGA_TRUSTX_IN_DATA_OFFSET bytes
cmds_set_apdu_header_WrongField(in_len) == (in_len + 1) % 65536
cmds_set_apdu_header(in_len) == in_len % 65536

\* what building a command leaves behind: the return value when the encoder
\* stops before submission (0 when it goes on to cmds_submit_apdu), the
\* header's length field, ctx->apdu.tx_len, the capacity handed to the
\* ASN.1 encoder and the offset past the last byte written to apdu_buf
Built(ret, in_len, tx_len, capacity, wr_end) ==
    [ret |-> ret, in_len |-> in_len, tx_len |-> tx_len,
     capacity |-> capacity, wr_end |-> wr_end, queued |-> ret = 0]

optrust_data_get_build ==
    LET tx_len == OPTIGA_TRUSTX_IN_DATA_OFFSET + 2 + 2 + 2
    IN  Built(0, cmds_set_apdu_header(6), tx_len, 0, tx_len)

optrust_data_set_build_NoCheck(len) ==
    LET tx_len == OPTIGA_TRUSTX_IN_DATA_OFFSET + 2 + 2 + len
    IN  Built(0, cmds_set_apdu_header(len + 4), tx_len, 0, tx_len)
optrust_data_set_build(len) ==
    IF len + 4 > OPTIGA_TRUSTX_IN_LEN_MAX
    THEN Built(-EINVAL, 0, 0, 0, 0)
    ELSE LET tx_len == OPTIGA_TRUSTX_IN_DATA_OFFSET + 2 + 2 + len
         IN  Built(0, cmds_set_apdu_header(len + 4), tx_len, 0, tx_len)

optrust_ecdsa_sign_build(digest_len) ==
    IF digest_len + 8 > OPTIGA_TRUSTX_IN_LEN_MAX
    THEN Built(-EINVAL, 0, 0, 0, 0)
    ELSE LET tx_len == OPTIGA_TRUSTX_IN_DATA_OFFSET + set_tlv(digest_len) + set_tlv_u16
         IN  Built(0, cmds_set_apdu_header(digest_len + 8), tx_len, 0, tx_len)

\* tx_buf - ctx->apdu_buf where optrust_ecdsa_verify_oid puts the signature
SigOffset(digest_len) == OPTIGA_TRUSTX_IN_DATA_OFFSET + set_tlv(digest_len) + 1 + 2

\* asn1_sig_len = ctx->apdu_buf_len - (ctx->apdu_buf - tx_buf): the pointer
\* difference is minus the write offset; converted to size_t and subtracted
\* modulo 2^32 it leaves this value for every buffer shorter than 2^31 bytes
AsnCapacity(apdu_buf_len, digest_len) ==
    LET diff == 0 - SigOffset(digest_len)
    IN  apdu_buf_len - diff

\* encoded lengths of a signature of two 32-byte integers, and of shorter ones
AsnLens == {8, 70, 72}

\* ecdsa_rs_to_asn1_integers: fails, or writes at most the capacity it was
\* given and reports the number of bytes written
AsnResults(capacity) ==
    {r \in [success : BOOLEAN, len : AsnLens] : r.success => r.len <= capacity}

optrust_ecdsa_verify_build(apdu_buf_len, digest_len, r) ==
    LET capacity == AsnCapacity(apdu_buf_len, digest_len)
        sig_end == SigOffset(digest_len) + r.len
        in_len == digest_len + 11 + r.len
    IN  IF ~r.success
        THEN Built(-EINVAL, 0, 0, capacity, SigOffset(digest_len))
        ELSE IF in_len > OPTIGA_TRUSTX_IN_LEN_MAX
        THEN Built(-EINVAL, 0, 0, capacity, sig_end)
        ELSE Built(0, cmds_set_apdu_header(in_len), sig_end + set_tlv_u16,
                   capacity, sig_end + set_tlv_u16)

optrust_ecc_gen_keys_build ==
    LET tx_len == OPTIGA_TRUSTX_IN_DATA_OFFSET + set_tlv_u16 + set_tlv_u8
    IN  Built(0, cmds_set_apdu_header(9), tx_len, 0, tx_len)

optrust_sha256_build ==
    LET tx_len == OPTIGA_TRUSTX_IN_DATA_OFFSET + 1 + 2 + 2 + 2 + 2
    IN  Built(0, cmds_set_apdu_header(9), tx_len, 0, tx_len)

optrust_build(kind, apdu_buf_len, len, r) ==
    CASE kind = "data_get" -> optrust_data_get_build
      [] kind = "data_set" -> optrust_data_set_build(len)
      [] kind = "sha256" -> optrust_sha256_build
      [] kind = "ecdsa_sign" -> optrust_ecdsa_sign_build(len)
      [] kind = "ecdsa_verify" -> optrust_ecdsa_verify_build(apdu_buf_len, len, r)
      [] kind = "ecc_gen_keys" -> optrust_ecc_gen_keys_build

\* the length of the data or digest handed to an encoder: short ones and
\* the ones around the largest the 16-bit length field can describe
BuildLens(kind) ==
    CASE kind = "data_set" -> {0, 4, 100, 65531, 65532, 65535}
      [] kind = "ecdsa_sign" -> {0, 32, 48, 65527, 65528}
      [] kind = "ecdsa_verify" -> {0, 32, 48, 65454, 65455}
      [] OTHER -> {0, 32}

\* ctx->apdu_buf_len: barely the asserted minimum for a 32-byte digest, a
\* comfortable buffer, and one that holds the largest command
BuildBufLens == {47, 1024, 131072}

BuildKinds == {"data_get", "data_set", "sha256", "ecdsa_sign", "ecdsa_verify", "ecc_gen_keys"}

BuildCalls ==
    {c \in [fn : {"optrust_build"}, pc : {"call"}, kind : BuildKinds,
            apdu_buf_len : BuildBufLens,
            len : UNION {BuildLens(k) : k \in BuildKinds},
            r : [success : BOOLEAN, len : AsnLens],
            built : {Built(0, 0, 0, 0, 0)}] :
        /\ c.len \in BuildLens(c.kind)
        /\ c.r = [success |-> TRUE, len |-> 8]}

BuildInit == DriverInit /\ dl = NoDataLink /\ call \in BuildCalls

\* the encoder runs up to cmds_submit_apdu or to its early return
BuildReturn ==
    /\ call.fn = "optrust_build"
    /\ call.pc = "call"
    /\ \E r \in IF call.kind = "ecdsa_verify"
                THEN AsnResults(AsnCapacity(call.apdu_buf_len, call.len))
                ELSE {call.r} :
          call' = [call EXCEPT !.pc = "done", !.r = r,
                      !.built = optrust_build(call.kind, call.apdu_buf_len, call.len, r)]
    /\ UNCHANGED <<driver, dl>>

BuildNext == BuildReturn

BuildSpec == BuildInit /\ [][BuildNext]_vars

(***************************************************************************)
(* The dispatcher against an element that answers with responses of any    *)
(* length                                                                  *)
(***************************************************************************)
\* lengths of a response APDU the transport can deliver: shorter than the
\* 4-byte response header, the header alone, and a header with one byte
WireRxLens == 1 .. 5

\* optiga_nettran_recv_apdu when the element chooses the length
optiga_nettran_recv_wire(cur) ==
    {[err |-> 0, rx |-> [len |-> l, sta |-> s]] :
        l \in {n \in WireRxLens : n <= cur.len}, s \in StaBytes}
    \cup {[err |-> -EIO, rx |-> cur]}
    \cup {[err |-> -EIO, rx |-> [len |-> cur.len, sta |-> s]] : s \in StaBytes}

\* optiga_transfer_apdu for the descriptor in flight
TransferWire ==
    /\ UNCHANGED <<init, cap, enc, late, last_reset, call, dl>>
    /\ wpc = "transfer"
    /\ \E snd \in optiga_nettran_send_apdu :
       \E rcv \in optiga_nettran_recv_wire(rx[apdu]) :
          LET r == optiga_transfer_apdu(snd, rcv, rx[apdu]) IN
          /\ err' = r.err
          /\ rx' = [rx EXCEPT ![apdu] = r.rx]
          /\ xfer' = [xfer EXCEPT ![apdu] = IF r.err = 0 THEN "ok" ELSE "failed"]
    /\ on_bus' = on_bus \ {Worker}
    /\ wpc' = "transferred"
    /\ UNCHANGED <<apdu_queue, reset_counter, finished, apdu, cpc, order,
                   raises, nreset, nerrcode, subx, faults, last_path>>

WireWorkerNext ==
    \/ Dequeue
    \/ DeadCheck
    \/ TransferWire
    \/ TransferFailed
    \/ Reset
    \/ Drain
    \/ TransferOk
    \/ GetErrorCode

WireNext == WireWorkerNext \/ CallerNext

WireSpec == Init /\ [][WireNext]_vars

(***************************************************************************)
(* Properties of the dispatcher                                            *)
(***************************************************************************)
IsPrefix(p, q) == Len(p) <= Len(q) /\ SubSeq(q, 1, Len(p)) = p

Elems(q) == {q[i] : i \in DOMAIN q}

\* descriptors the worker has taken from the fifo and not yet signalled
InFlight == Elems(order) \ Elems(apdu_queue)

EIOSignal == [signaled |-> 1, result |-> -EIO]

\* C1: every submitted descriptor has its completion signal raised exactly
\* once: a signal is never raised twice for one submission nor before the
\* descriptor is in the fifo, and under a scheduled worker whose transport
\* calls return every waiting submission is eventually signalled.
C1_SignalExactlyOnce ==
    /\ [](\A d \in Descs : raises[d] <= 1 /\ (cpc[d] = "put" => raises[d] = 0))
    /\ \A d \in Descs : (cpc[d] = "wait" /\ raises[d] = 0) ~> (raises[d] = 1)

\* a descriptor dequeued in the dead state got its one signal, unsent
C1_Witness ==
    /\ wpc = "get"
    /\ last_path = "dead"
    /\ \E d \in Descs : /\ cpc[d] = "wait"
                        /\ raises[d] = 1
                        /\ finished[d] = EIOSignal
                        /\ xfer[d] = "none"

\* C2: descriptors are completed strictly in enqueue order: the submitted
\* and unsignalled descriptors are the in-flight one followed by the fifo
\* in enqueue order (none skipped, none merged), and every raise is for the
\* oldest of them.
C2_FifoOrder ==
    /\ [](order = (IF apdu = NULL THEN <<>> ELSE <<apdu>>) \o apdu_queue)
    /\ [][\A d \in Descs : raises'[d] > raises[d]
                            => order # <<>> /\ Head(order) = d]_vars

\* descriptor 1 was completed while descriptor 2, enqueued behind it, is next
C2_Witness ==
    /\ wpc = "drain"
    /\ apdu = 2
    /\ order = <<2>>
    /\ cpc[1] = "wait"
    /\ raises[1] = 1
    /\ xfer[1] = "failed"

\* C3: at most one descriptor is in flight and at most one exchange is in
\* progress on the transport, and only the worker is ever inside a
\* transport call, however many callers submit.
C3_SingleExchange ==
    /\ Cardinality(InFlight) <= 1
    /\ Cardinality(on_bus) <= 1
    /\ on_bus \subseteq {Worker}
    /\ (wpc \in {"transfer", "reset", "get_error_code"}) = (on_bus = {Worker})

\* the worker is in the GetErrorCode exchange while callers have queued more
C3_Witness ==
    /\ wpc = "get_error_code"
    /\ on_bus = {Worker}
    /\ InFlight = {apdu}
    /\ Len(apdu_queue) = NCallers - 1

\* C4: a signal carries 0 only if the round-trip succeeded at transport
\* level and byte 0 of the response is 0.
C4_ZeroOnlyOnSuccess ==
    \A d \in Descs :
        (finished[d].signaled = 1 /\ finished[d].result = 0)
            => (xfer[d] = "ok" /\ rx[d].sta = OPTIGA_APDU_STA_SUCCESS)

\* C5: an element error is answered by one GetErrorCode exchange before any
\* other descriptor is dequeued, and the descriptor is signalled with byte 4
\* of the response as a positive value, or with -EIO if the exchange fails.
C5_ErrorCodeOutcome ==
    [][wpc = "get_error_code" =>
          /\ IsPrefix(apdu_queue, apdu_queue')
          /\ apdu' \in {apdu, NULL}
          /\ wpc' # wpc =>
                /\ wpc' = "get"
                /\ nerrcode' = 1
                /\ finished'[apdu].signaled = 1
                /\ IF subx'.io = "ok"
                   THEN /\ finished'[apdu].result = subx'.b4
                        /\ finished'[apdu].result > 0
                   ELSE finished'[apdu].result = -EIO]_vars

\* C6: a failed caller round-trip increments reset_counter by exactly one,
\* calls optiga_reset exactly once, then signals the in-flight descriptor and
\* every descriptor found in the fifo with -EIO without transmitting them,
\* and leaves the drain loop only when the fifo is empty.
C6_FaultResetDrain ==
    /\ [](wpc = "drain" => nreset = 1 /\ on_bus = {} /\ apdu # NULL)
    /\ [][/\ (wpc = "drain" /\ (wpc' # wpc \/ apdu' # apdu))
                => raises'[apdu] > raises[apdu]
          /\ (wpc = "transferred" /\ err # 0 /\ wpc' # wpc)
                => (wpc' = "reset" /\ reset_counter' = reset_counter + 1)
          /\ (wpc \in {"reset", "drain"})
                => (reset_counter' = reset_counter /\ wpc' # "transfer")
          /\ (wpc = "reset" /\ wpc' # wpc)
                => (wpc' = "drain" /\ nreset' = nreset + 1 /\ raises' = raises)
          /\ (wpc = "drain" /\ raises'[apdu] > raises[apdu])
                => /\ finished'[apdu] = EIOSignal
                   /\ xfer'[apdu] \in {"failed", "none"}
                   /\ \A d \in Descs \ {apdu} : raises'[d] <= raises[d]
                   /\ IF apdu_queue = <<>>
                      THEN wpc' = "get" /\ apdu_queue' = <<>>
                      ELSE /\ wpc' = "drain"
                           /\ apdu' = Head(apdu_queue)
                           /\ xfer'[apdu'] = "none"
                           /\ apdu_queue' = Tail(apdu_queue)]_vars

\* the failed descriptor and the one queued behind it both carry -EIO
C6_Witness ==
    /\ wpc = "get"
    /\ last_path = "fault"
    /\ apdu_queue = <<>>
    /\ nreset = 1
    /\ reset_counter = 1
    /\ \E a, b \in Descs :
          /\ xfer[a] = "failed" /\ finished[a] = EIOSignal /\ cpc[a] = "wait"
          /\ xfer[b] = "none" /\ finished[b] = EIOSignal /\ cpc[b] = "wait"

\* C7: a transport failure in the GetErrorCode exchange has reset-and-drain
\* semantics like one in the caller's round-trip: reset_counter was
\* incremented and optiga_reset was called.
C7_AnyFaultResets ==
    (wpc = "get" /\ last_path = "error" /\ subx.io \in {"send", "recv"})
        => (nreset = 1 /\ reset_counter >= 1)

\* C8: a round-trip reporting an element error neither increments
\* reset_counter nor calls optiga_reset nor signals any other descriptor;
\* descriptors queued behind it stay queued and the next one dequeued is
\* sent to the element.
C8_ElementErrorNoReset ==
    /\ []((wpc = "get_error_code" \/ (last_path = "error" /\ wpc = "get"))
            => reset_counter = 0 /\ nreset = 0)
    /\ [][/\ (wpc = "get_error_code")
                => /\ reset_counter' = 0
                   /\ nreset' = 0
                   /\ wpc' \in {"get_error_code", "get"}
                   /\ IsPrefix(apdu_queue, apdu_queue')
                   /\ \A d \in Descs \ {apdu} : raises'[d] <= raises[d]
          /\ (wpc = "check" /\ last_path = "error" /\ wpc' # wpc)
                => (wpc' = "transfer" /\ xfer'[apdu] = "sent")]_vars

\* after an element error was signalled the next descriptor is on the wire
C8_Witness ==
    /\ wpc = "transfer"
    /\ last_path = "error"
    /\ reset_counter = 0
    /\ \E d \in Descs \ {apdu} : /\ cpc[d] = "wait"
                                 /\ xfer[d] = "ok"
                                 /\ finished[d] = [signaled |-> 1, result |-> 255]

\* C9: once reset_counter exceeds OPTIGA_MAX_RESET it never changes again,
\* and once the reset of the last fault has returned the worker performs no
\* send, receive or reset any more: every descriptor it takes from the fifo
\* is signalled -EIO unsent.
C9_DeadAbsorbing ==
    [][reset_counter > OPTIGA_MAX_RESET =>
          /\ reset_counter' = reset_counter
          /\ wpc' \in {"reset", "drain", "get", "check"}
          /\ wpc # "reset" =>
                /\ wpc' # "reset"
                /\ on_bus' = {}
                /\ nreset' <= nreset
                /\ \A d \in Descs :
                      /\ xfer'[d] \in {xfer[d], "none"}
                      /\ raises'[d] > raises[d]
                            => finished'[d] = EIOSignal]_vars

\* the core is dead and has rejected a descriptor
C9_Witness ==
    /\ reset_counter > OPTIGA_MAX_RESET
    /\ wpc = "get"
    /\ last_path = "dead"
    /\ \E d \in Descs : xfer[d] = "none" /\ finished[d] = EIOSignal

\* C10: after OPTIGA_MAX_RESET consecutive transport faults the core is
\* dead: the next descriptor is not sent to the element.
C10_DeadAfterMaxResetFaults ==
    faults >= OPTIGA_MAX_RESET => wpc \notin {"transfer", "transferred"}

\* C11: against a peer that fails every transfer and every reset, with
\* descriptors submitted one after another, exactly OPTIGA_MAX_RESET + 1 = 4
\* descriptors are attempted on the transport: a dequeued descriptor is sent
\* while fewer than 4 attempts have failed, and after the 4th the core is
\* dead and every later descriptor is completed with -EIO without a transfer.
C11_FourAttemptsThenDead ==
    /\ [](faults + (IF wpc \in {"transfer", "transferred"} THEN 1 ELSE 0)
              <= OPTIGA_MAX_RESET + 1)
    /\ [][(wpc = "check" /\ wpc' # wpc)
            => IF faults < OPTIGA_MAX_RESET + 1
               THEN wpc' = "transfer" /\ xfer'[apdu] = "sent"
               ELSE /\ wpc' = "get"
                    /\ on_bus' = {}
                    /\ finished'[apdu] = EIOSignal
                    /\ xfer'[apdu] = "none"]_vars
    /\ [][\A d \in Descs :
            raises'[d] > raises[d]
            => /\ finished'[d] = EIOSignal
               /\ (xfer'[d] = "failed") = (wpc = "drain")
               /\ (xfer'[d] = "none") = (faults' = OPTIGA_MAX_RESET + 1
                                          /\ wpc = "check")]_vars

\* four descriptors failed on the transport and a fifth was rejected unsent
C11_Witness ==
    /\ faults = OPTIGA_MAX_RESET + 1
    /\ wpc = "get"
    /\ last_path = "dead"
    /\ \E d \in Descs : /\ cpc[d] = "wait"
                        /\ finished[d] = EIOSignal
                        /\ xfer[d] = "none"

\* C12: the descriptors completed with -EIO because of one transport fault
\* form a contiguous run in enqueue order that starts at the descriptor
\* whose round-trip failed: the run begins with the failed descriptor, which
\* is the oldest unsignalled one, every further member is the next in enqueue
\* order and was never sent, each member gets -EIO, and a step of the run
\* changes the outcome and the transfer record of no other descriptor.
C12_FaultRunContiguous ==
    /\ [](wpc = "drain"
            => /\ order # <<>> /\ Head(order) = apdu
               /\ xfer[apdu] \in {"failed", "none"}
               /\ \A d \in Elems(apdu_queue) : xfer[d] = "none")
    /\ [][(wpc = "reset" /\ wpc' = "drain")
            => apdu' = apdu /\ xfer[apdu] = "failed"]_vars
    /\ [][(wpc = "drain" /\ raises'[apdu] > raises[apdu])
            => /\ finished'[apdu] = EIOSignal
               /\ \A d \in Descs \ {apdu} :
                     finished'[d] = finished[d] /\ xfer'[d] = xfer[d]
               /\ IF Len(order) >= 2
                  THEN /\ wpc' = "drain"
                       /\ apdu' = order[2]
                       /\ xfer'[apdu'] = "none"
                  ELSE wpc' = "get"]_vars

\* a descriptor completed with 0 before the fault keeps its outcome while the
\* one enqueued behind it failed on the transport and got -EIO
C12_Witness ==
    /\ wpc = "get"
    /\ last_path = "fault"
    /\ \E a, b \in Descs :
          /\ cpc[a] = "wait" /\ xfer[a] = "ok"
          /\ finished[a] = [signaled |-> 1, result |-> 0]
          /\ cpc[b] = "wait" /\ xfer[b] = "failed"
          /\ finished[b] = EIOSignal

\* C13: reset_counter always equals the number of consecutive caller
\* round-trips that failed at transport level since the last one that
\* succeeded there (or since init), so it stays within 0 .. 4: a failed
\* round-trip adds one (1 after a single fault), a round-trip that succeeds
\* at transport level sets it to 0 whether or not the element reported an
\* error, and nothing else changes it.
C13_ResetCounterCountsFaults ==
    /\ [](reset_counter = faults
            /\ reset_counter \in 0 .. OPTIGA_MAX_RESET + 1)
    /\ [][(wpc = "transferred" /\ wpc' # wpc)
            => IF xfer[apdu] = "failed"
               THEN reset_counter' = reset_counter + 1
               ELSE xfer[apdu] = "ok" /\ reset_counter' = 0]_vars
    /\ [][reset_counter' # reset_counter => wpc = "transferred"]_vars

\* the round-trip after a single fault succeeded at transport level with an
\* element error and the counter is back at 0
C13_Witness ==
    /\ wpc = "get_error_code"
    /\ reset_counter = 0
    /\ optiga_apdu_is_error(rx[apdu])
    /\ \E d \in Descs \ {apdu} : /\ cpc[d] = "wait"
                                  /\ xfer[d] = "failed"
                                  /\ finished[d] = EIOSignal

\* C14: calling optiga_init a second time on an initialised instance is
\* equivalent to a reset followed by steady state: every descriptor that was
\* queued or in flight before the second init is still completed exactly
\* once, so a submission that waits for its signal is always either linked
\* in the one fifo or held by the one worker.
C14_SecondInitKeepsSubmissions ==
    \A d \in Descs :
        (cpc[d] = "wait" /\ finished[d].signaled = 0)
        => (d \in Elems(apdu_queue) \/ apdu = d)

\* the steps of optiga_init in the order of the code
InitSteps == <<"zero", "bind", "reset", "fifo", "thread">>

\* what holds of a returned optiga_init call whose steps run in the order
\* steps: it stops at the first failure, returns -EINVAL without a bus and
\* the error of the reset if that fails, leaves fifo and worker alone in
\* both cases, and a descriptor is only ever handed to the transport after
\* an OpenApplication exchange that succeeded
InitStopsAtFirstFailure(steps) ==
    /\ init.pc = "boot" => wpc = "off"
    /\ init.pc = "returned"
       => /\ IsPrefix(init.log, steps)
          /\ init.i2c_master = NULL
             => /\ init.ret = -EINVAL
                /\ Elems(init.log) \cap {"reset", "fifo", "thread"} = {}
          /\ (init.i2c_master # NULL /\ init.reset.err # 0)
             => /\ init.ret = init.reset.err
                /\ "reset" \in Elems(init.log)
                /\ Elems(init.log) \cap {"fifo", "thread"} = {}
          /\ init.ret # 0 => wpc = "off"
          /\ init.ret = 0 => init.log = steps
    /\ \A d \in Descs :
          xfer[d] # "none"
          => /\ init.pc = "returned" /\ init.ret = 0
             /\ init.reset.err = 0
             /\ init.reset.log[Len(init.reset.log)] = "open_application"

\* C15 as stated: optiga_init performs its steps in the order bind bus,
\* zero reset counter, reset, initialise queue, start worker and stops at
\* the first failure (-EINVAL without a bus, the reset's error if the reset
\* fails, in both cases no queue and no worker), so no caller APDU is
\* transmitted before OpenApplication has succeeded.
C15_AsStated ==
    InitStopsAtFirstFailure(<<"bind", "zero", "reset", "fifo", "thread">>)

\* C15: optiga_init performs its steps in the order zero reset counter, bind
\* bus, reset, initialise queue, start worker and stops at the first failure:
\* it returns -EINVAL if the bus binding is missing and the error of the
\* reset if that fails, in both cases without initialising the queue or
\* starting the worker, so no caller APDU is ever transmitted before
\* OpenApplication has succeeded at least once.
C15_InitOrder == InitStopsAtFirstFailure(InitSteps)

\* optiga_init returned the error of a reset whose OpenApplication failed;
\* a caller has submitted and waits, and there is no worker to send it
C15_Witness ==
    /\ init.pc = "returned"
    /\ init.ret = -EIO
    /\ init.log = <<"zero", "bind", "reset">>
    /\ Len(init.reset.log) = 4
    /\ wpc = "off"
    /\ \E d \in Descs : cpc[d] = "wait" /\ xfer[d] = "none"

\* C16: the reset runs PHY init, data link init, nettran init and the
\* OpenApplication exchange in that order, stops at the first failing step
\* and returns its error, and returns 0 only if all four succeed and the
\* OpenApplication response is exactly 4 bytes that are all zero; any other
\* length or content gives -EIO.
C16_ResetOrder ==
    (init.pc = "returned" /\ init.i2c_master # NULL)
    => LET e == init.env
           r == init.reset
           steps_ok == e.phy = 0 /\ e.dl = 0 /\ e.nt = 0
       IN  /\ r.log # <<>>
           /\ IsPrefix(r.log, <<"phy", "dl", "nt", "open_application">>)
           /\ e.phy # 0 => (r.err = e.phy /\ Len(r.log) = 1)
           /\ (e.phy = 0 /\ e.dl # 0) => (r.err = e.dl /\ Len(r.log) = 2)
           /\ (e.phy = 0 /\ e.dl = 0 /\ e.nt # 0)
              => (r.err = e.nt /\ Len(r.log) = 3)
           /\ steps_ok => Len(r.log) = 4
           /\ (steps_ok /\ e.snd # 0) => r.err = e.snd
           /\ (steps_ok /\ e.snd = 0 /\ e.rcv.err # 0) => r.err = e.rcv.err
           /\ (r.err = 0)
              = (/\ steps_ok /\ e.snd = 0 /\ e.rcv.err = 0
                 /\ e.rcv.len = 4
                 /\ \A i \in 1 .. 4 : e.rcv.buf[i] = 0)
           /\ (/\ steps_ok /\ e.snd = 0 /\ e.rcv.err = 0
               /\ (e.rcv.len # 4 \/ \E i \in 1 .. 4 : e.rcv.buf[i] # 0))
              => r.err = -EIO

\* the three init steps passed and OpenApplication answered 4 bytes that
\* are not all zero: the reset returned -EIO
C16_Witness ==
    /\ init.pc = "returned"
    /\ init.i2c_master # NULL
    /\ Len(init.reset.log) = 4
    /\ init.env.rcv = [err |-> 0, len |-> 4, buf |-> <<0, 0, 0, 1>>]
    /\ init.env.snd = 0
    /\ init.reset.err = -EIO

\* C17: raising the completion signal is the worker's last access to a
\* descriptor: the response and rx_len are in place before the raise (the
\* raising step writes neither), the worker does not hold a signalled
\* descriptor, and a signalled descriptor's response, rx_len and signal
\* change only when its own caller, having seen the completion, submits again.
C17_RaiseIsLastAccess ==
    /\ [](\A d \in Descs : finished[d].signaled = 1 => apdu # d)
    /\ [][\A d \in Descs :
            raises'[d] > raises[d]
            => /\ rx'[d] = rx[d]
               /\ xfer'[d] = xfer[d]
               /\ apdu = d /\ apdu' # d]_vars
    /\ [][\A d \in Descs :
            finished[d].signaled = 1
            => \/ rx'[d] = rx[d] /\ finished'[d] = finished[d]
               \/ cpc[d] = "idle" /\ cpc'[d] = "put"]_vars

\* a caller has seen its completion and returned while the worker is in a
\* transfer for another descriptor
C17_Witness ==
    /\ wpc = "transfer"
    /\ \E d \in Descs \ {apdu} : /\ cpc[d] = "idle"
                                  /\ finished[d].signaled = 1
                                  /\ xfer[d] = "ok"

\* in how many of the states queued, in flight and completed d is
LifecycleStates(d) ==
    (IF d \in Elems(apdu_queue) THEN 1 ELSE 0)
    + (IF apdu = d THEN 1 ELSE 0)
    + (IF finished[d].signaled = 1 THEN 1 ELSE 0)

\* C18: every descriptor is in exactly one of the states queued, in flight
\* or completed: never in two of them, in exactly one once enqueue_apdu has
\* returned, and linked in the fifo at most once; the worker signals only the
\* descriptor it holds, which is not linked in the fifo, and a descriptor
\* enters the fifo only by its caller's k_fifo_put with the signal cleared.
C18_OneLifecycleState ==
    /\ [](\A d \in Descs :
            /\ LifecycleStates(d) <= 1
            /\ cpc[d] = "wait" => LifecycleStates(d) = 1
            /\ Cardinality({i \in DOMAIN apdu_queue : apdu_queue[i] = d}) <= 1)
    /\ [][\A d \in Descs :
            raises'[d] > raises[d]
            => apdu = d /\ d \notin Elems(apdu_queue)]_vars
    /\ [][\A d \in Descs :
            (d \notin Elems(apdu_queue) /\ d \in Elems(apdu_queue'))
            => /\ cpc[d] = "put" /\ cpc'[d] = "wait"
               /\ finished[d].signaled = 0
               /\ apdu # d]_vars

\* one descriptor is completed and not yet collected, another is queued,
\* and the worker holds none
C18_Witness ==
    /\ wpc = "get"
    /\ apdu = NULL
    /\ \E a, b \in Descs :
          /\ cpc[a] = "wait" /\ finished[a].signaled = 1
          /\ cpc[b] = "wait" /\ b \in Elems(apdu_queue)

C20_EncoderReturn ==
    \A c \in EncCallers :
        (cpc[c] = "idle" /\ enc[c].kind # "none" /\ enc[c].queued)
        => /\ enc[c].ret = 0 => finished[c].result = 0
           /\ finished[c].result # 0
              => (enc[c].ret = -EIO /\ ~enc[c].copied)

\* optrust_data_get returned -EIO for the element error code 255 and left
\* the caller's buffer alone
C20_Witness ==
    \E c \in EncCallers :
        /\ cpc[c] = "idle"
        /\ enc[c] = [kind |-> "data_get", ret |-> -EIO, copied |-> FALSE,
                     queued |-> TRUE]
        /\ finished[c] = [signaled |-> 1, result |-> 255]

\* C30: a completion is neither lost nor stale. The worker raises a signal
\* only for a descriptor whose caller has put it and is in (or about to
\* enter) k_poll; a raised signal of such a caller stays as raised until the
\* k_poll returns, so a raise that precedes the wait is still seen; a
\* signalled waiter sees exactly one raise made since the initialisation of
\* this submission, never the previous outcome; and the signal is cleared
\* only by the owner's enqueue, while the descriptor is neither queued nor
\* with the worker, so a raise is never wiped by the initialisation.
C30_NotLostNotStale ==
    [][\A d \in Descs :
          /\ (raises'[d] > raises[d])
                => (cpc[d] = "wait" /\ finished'[d].signaled = 1)
          /\ (cpc[d] = "wait" /\ finished[d].signaled = 1)
                => (raises[d] = 1 /\ finished'[d] = finished[d])
          /\ (finished[d].signaled = 1 /\ finished'[d].signaled = 0)
                => (/\ cpc[d] = "idle" /\ cpc'[d] = "put"
                    /\ d \notin Elems(order) /\ d \notin Elems(order'))]_vars

\* a resubmitted descriptor is queued, its previous outcome -EIO still in
\* result, and its waiter is not released by it
C30_Witness ==
    \E d \in Descs :
        /\ cpc[d] = "wait"
        /\ finished[d] = [signaled |-> 0, result |-> -EIO]
        /\ raises[d] = 0
        /\ d \in Elems(apdu_queue)

\* C27: on a transport fault the worker drains exactly the descriptors that
\* were enqueued at the moment of fault entry: the drain never completes a
\* descriptor that was put while optiga_reset or the drain loop was running.
C27_DrainOnlyEnqueuedAtFault ==
    [][\A d \in Descs :
          (wpc = "drain" /\ raises'[d] > raises[d]) => d \notin late]_vars

\* C28: a failure of optiga_reset inside the worker changes nothing but the
\* log. Whatever the reset returns, the worker goes on to the drain with
\* reset_counter, the fifo and the signals untouched and after exactly one
\* reset call; the drain after it raises -EIO and takes the next descriptor
\* without waiting, as after a successful reset; and the next descriptor that
\* reaches the dead check with reset_counter <= OPTIGA_MAX_RESET is sent over
\* the transport although the last reset failed.
C28_FailedResetOnlyLogged ==
    [][/\ (wpc = "reset" /\ wpc' # "reset")
            => /\ wpc' = "drain"
               /\ nreset' = 1
               /\ UNCHANGED <<reset_counter, apdu_queue, apdu, finished, order>>
       /\ (wpc = "drain" /\ <<wpc', apdu'>> # <<wpc, apdu>>)
            => /\ finished'[apdu] = EIOSignal
               /\ apdu' = k_fifo_get(apdu_queue)
               /\ apdu_queue' = k_fifo_rest(apdu_queue)
               /\ wpc' = IF apdu' = NULL THEN "get" ELSE "drain"
               /\ UNCHANGED <<reset_counter, nreset>>
       /\ (/\ wpc = "check" /\ wpc' # "check"
           /\ last_reset = "failed"
           /\ reset_counter <= OPTIGA_MAX_RESET)
            => /\ wpc' = "transfer"
               /\ xfer'[apdu] = "sent"
               /\ Worker \in on_bus']_vars

\* after a fault whose reset failed, the next descriptor has been dequeued
\* and is about to be sent
C28_Witness ==
    /\ wpc = "check"
    /\ last_reset = "failed"
    /\ reset_counter \in 1..OPTIGA_MAX_RESET
    /\ xfer[apdu] = "none"

\* C29: optiga_get_error_code returns 0 and stores byte 4 of the response
\* exactly when both transport calls succeeded and the response is 5 bytes
\* long with byte 0 = 0x00 and bytes 2..3 = 0x00 0x01; a send or receive
\* failure is returned as it is, any other response gives -EIO; whenever the
\* return is not 0 the byte behind err_code is what it was at entry; and
\* the call makes at most one send and one receive.
C29_GetErrorCodeContract ==
    (call.fn = "optiga_get_error_code" /\ call.pc = "returned") =>
        LET Good == /\ call.rcv.len = OPTIGA_GET_ERROR_RESPONSE_LEN
                    /\ call.rcv.b0 = 0
                    /\ call.rcv.b2 = 0
                    /\ call.rcv.b3 = 1
        IN  /\ (call.ret = 0) =
                   (call.snd = 0 /\ call.rcv.err = 0 /\ Good)
            /\ (call.ret = 0) => call.out = call.rcv.b4
            /\ (call.snd # 0) => call.ret = call.snd
            /\ (call.snd = 0 /\ call.rcv.err # 0) => call.ret = call.rcv.err
            /\ (call.snd = 0 /\ call.rcv.err = 0 /\ ~Good) => call.ret = -EIO
            /\ (call.ret # 0) => call.out = call.err_code
            /\ call.sends = 1
            /\ call.recvs <= 1

\* a well-formed response whose byte 4 differs from what err_code held
C29_Witness ==
    /\ call.fn = "optiga_get_error_code"
    /\ call.pc = "returned"
    /\ call.ret = 0
    /\ call.out = 255
    /\ call.err_code = 171

\* C23: optiga_reg_read returns 0 if and only if some register-select write
\* was acknowledged and, after it, some read was acknowledged; if all select
\* attempts or all read attempts are NACKed it returns -EIO; reads are made
\* only after an acknowledged select; and success is reported only when the
\* last attempt made in each loop was acknowledged.
C23_RegReadRetry ==
    (call.fn = "optiga_reg_read" /\ call.pc = "returned") =>
        LET SelectAcked == \E i \in 1 .. RegAttempts : call.writes[i] = 0
            ReadAcked == \E i \in 1 .. RegAttempts : call.reads[i] = 0
        IN  /\ (call.ret = 0) = (SelectAcked /\ ReadAcked)
            /\ (~SelectAcked \/ ~ReadAcked) => call.ret = -EIO
            /\ (call.nread > 0) => call.writes[call.nwrite] = 0
            /\ (call.ret = 0) =>
                  /\ call.writes[call.nwrite] = 0
                  /\ call.reads[call.nread] = 0
                  /\ \A i \in 1 .. call.nwrite - 1 : call.writes[i] # 0
                  /\ \A i \in 1 .. call.nread - 1 : call.reads[i] # 0

\* the select is acknowledged at the last attempt, the read at the third
C23_Witness ==
    /\ call.fn = "optiga_reg_read"
    /\ call.pc = "returned"
    /\ call.ret = 0
    /\ call.nwrite = RegAttempts
    /\ call.nread = 3

\* concatenation of the fragments of a sequence of frames, in send order
RECURSIVE Concat(_)
Concat(frames) ==
    IF frames = <<>> THEN <<>>
    ELSE Head(frames).data \o Concat(Tail(frames))

\* C24: for every APDU length and every DATA_REG_LEN from 0x10 upward the
\* MTU is at least 10 and the transmit terminates: every step sends a
\* fragment of 1..MTU bytes and moves the offset forward, never past the
\* end. A transmit that returns 0 has sent fragments whose concatenation in
\* send order is the APDU, flagged ONLY when there is one fragment and
\* otherwise FIRST, then zero or more MIDDLE, then LAST.
C24_Fragmentation ==
    [][(call.fn = "optiga_nettran_send_apdu" /\ call.pc = "sending") =>
          LET mtu == call.data_reg_len - 6
              f == call'.frames
              n == Len(f)
          IN  /\ mtu >= 10
              /\ n = Len(call.frames) + 1
              /\ Len(f[n].data) \in 1 .. mtu
              /\ call'.offset = call.offset + Len(f[n].data)
              /\ call'.offset <= call.apdu_len
              /\ (call'.pc = "returned" /\ call'.err = 0) =>
                    /\ Concat(f) = ApduBytes(call.apdu_len)
                    /\ call'.offset = call.apdu_len
                    /\ n = 1 => f[1].chain = "ONLY"
                    /\ n > 1 =>
                          /\ f[1].chain = "FIRST"
                          /\ f[n].chain = "LAST"
                          /\ \A i \in 2 .. n - 1 : f[i].chain = "MIDDLE"]_vars

\* an APDU of more than two MTUs went out whole as FIRST, MIDDLE, LAST
C24_Witness ==
    /\ call.fn = "optiga_nettran_send_apdu"
    /\ call.pc = "returned"
    /\ call.err = 0
    /\ Len(call.frames) = 3
    /\ call.frames[2].chain = "MIDDLE"
    /\ call.offset = call.apdu_len

\* C25: an APDU whose length is exactly the MTU is sent as one frame
\* flagged ONLY; an APDU of MTU + 1 bytes is sent as exactly two frames,
\* FIRST with MTU bytes and then LAST with the one remaining byte.
C25_MtuBoundary ==
    (/\ call.fn = "optiga_nettran_send_apdu"
     /\ call.pc = "returned"
     /\ call.err = 0) =>
        LET mtu == call.data_reg_len - 6
            f == call.frames
        IN  /\ (call.apdu_len = mtu) =>
                  /\ Len(f) = 1
                  /\ f[1].chain = "ONLY"
                  /\ Len(f[1].data) = mtu
            /\ (call.apdu_len = mtu + 1) =>
                  /\ Len(f) = 2
                  /\ f[1].chain = "FIRST"
                  /\ f[2].chain = "LAST"
                  /\ Len(f[1].data) = mtu
                  /\ Len(f[2].data) = 1

\* an APDU of MTU + 1 bytes has been sent
C25_Witness ==
    /\ call.fn = "optiga_nettran_send_apdu"
    /\ call.pc = "returned"
    /\ call.err = 0
    /\ call.apdu_len = call.data_reg_len - 5
    /\ Len(call.frames) = 2

\* C26: every frame dl_recv delivers has passed the CRC check and carries
\* the sequence number rx_seq expected at that time; rx_seq advances by one
\* modulo 4 with each delivered frame and not otherwise; a frame repeating
\* the previously delivered sequence number is re-acknowledged and not
\* delivered, the receive going on; a data frame with any other sequence
\* number makes the receive fail.
C26_DeliverInSequence ==
    [][(dl.pc = "recv") =>
          LET f == dl'.frame
              delivered == dl'.event = "delivered"
              data == f.crc_ok /\ f.type = "DATA"
          IN  /\ delivered =>
                    /\ data
                    /\ f.seq = dl.rx_seq
                    /\ dl'.rx_seq = (dl.rx_seq + 1) % 4
                    /\ dl'.ret = 0
                    /\ dl'.pc = "idle"
              /\ ~delivered => dl'.rx_seq = dl.rx_seq
              /\ (data /\ f.seq = dl.rx_seq) => delivered
              /\ (data /\ f.seq # dl.rx_seq /\ f.seq = dl.prev) =>
                    /\ dl'.event = "reack"
                    /\ dl'.pc = "recv"
              /\ (data /\ f.seq # dl.rx_seq /\ f.seq # dl.prev) =>
                    /\ dl'.pc = "idle"
                    /\ dl'.ret = -EIO]_vars

\* after frames 0..3 were delivered the counter has wrapped, and a repeat
\* of frame 3 has just been re-acknowledged
C26_Witness ==
    /\ dl.pc = "recv"
    /\ dl.event = "reack"
    /\ dl.rx_seq = 0
    /\ dl.prev = 3
    /\ dl.frame.seq = 3

\* C21: optrust_data_get returns 0 only if the response has rx[0] = 0 and a
\* declared length equal to rx_len - 4, and then *len is that length, which
\* is at most the caller's initial *len, and exactly that many bytes are
\* copied to buf; after a successful submission a declared length other
\* than rx_len - 4 gives -EIO and one above the initial *len gives -ENOMEM,
\* and both leave buf and *len as they were.
C21_DataGetContract ==
    (call.fn = "optrust_data_get" /\ call.pc = "returned") =>
        LET declared == call.p.out_len
            body == call.r.len - 4
        IN  /\ (call.ret = 0) =>
                  /\ call.r.sta = 0
                  /\ declared = body
                  /\ call.len = declared
                  /\ declared <= call.p.len
                  /\ call.ncopied = declared
            /\ (call.result_code = 0 /\ declared # body)
                  => call.ret = -EIO
            /\ (call.result_code = 0 /\ declared = body
                                     /\ declared > call.p.len)
                  => call.ret = -ENOMEM
            /\ (call.ret \in {-EIO, -ENOMEM})
                  => (call.ncopied = 0 /\ call.len = call.p.len)

\* C22: a request whose output buffer is too small for the result is
\* rejected by the encoder before submission: when optrust_data_get,
\* optrust_sha256_oid or optrust_ecc_gen_keys_oid has returned because the
\* caller's buffer is too small, the call has put no descriptor in the
\* queue and nothing of it went to the element.
C22_RejectBeforeSubmission ==
    \A c \in EncCallers :
        (/\ cpc[c] = "idle"
         /\ enc[c].kind \in {"data_get", "sha256", "ecc_gen_keys"}
         /\ enc[c].ret \in {-ENOMEM, -EINVAL})
            => ~enc[c].queued

\* C31: submission never rejects and never performs bus I/O. In every
\* device state, the worker resetting or the core dead included, a caller
\* that has initialised the signal can complete enqueue_apdu; the step
\* appends the descriptor to the fifo, leaves the caller waiting, puts
\* nobody on the bus and does not touch the signal; a caller is never on
\* the bus; and -EIO reaches a descriptor only through a raise made after
\* it was put.
C31_SubmitNeverRejects ==
    [][\A c \in Callers :
          /\ c \notin on_bus
          /\ (cpc[c] = "put") => ENABLED EnqueuePut(c)
          /\ (cpc[c] = "put" /\ cpc'[c] # "put")
                => /\ cpc'[c] = "wait"
                   /\ apdu_queue' = Append(apdu_queue, c)
                   /\ UNCHANGED <<on_bus, finished, wpc, reset_counter>>
          /\ (finished'[c] # finished[c] /\ finished'[c] = EIOSignal)
                => (cpc[c] = "wait" /\ raises'[c] = raises[c] + 1)]_vars

\* a descriptor was accepted into the fifo of a dead core
C31_Witness ==
    \E c \in Callers :
        /\ reset_counter > OPTIGA_MAX_RESET
        /\ cpc[c] = "wait"
        /\ c \in Elems(apdu_queue)
        /\ finished[c].signaled = 0

\* C32: optiga_reg_read makes at most 5 register-select writes and at most
\* 5 reads, at most 10 bus transactions, and then returns, whatever the
\* peer answers; each loop stops at its first acknowledged attempt; and no
\* read is issued when all 5 select attempts were NACKed.
C32_RegReadBounded ==
    /\ (call.fn = "optiga_reg_read" /\ call.pc = "called")
          => ENABLED RegReadReturn
    /\ (call.fn = "optiga_reg_read" /\ call.pc = "returned") =>
          /\ call.nwrite \in 1 .. 5
          /\ call.nread \in 0 .. 5
          /\ call.nwrite + call.nread <= 10
          /\ \A i \in 1 .. call.nwrite - 1 : call.writes[i] # 0
          /\ \A i \in 1 .. call.nread - 1 : call.reads[i] # 0
          /\ (call.nwrite < 5) => call.writes[call.nwrite] = 0
          /\ (call.nread \in 1 .. 4) => call.reads[call.nread] = 0
          /\ (\A i \in 1 .. 5 : call.writes[i] # 0) => call.nread = 0
          /\ (\E i \in 1 .. 5 : call.writes[i] = 0) => call.nread >= 1

\* all ten transactions were made and the last read was NACKed too
C32_Witness ==
    /\ call.fn = "optiga_reg_read"
    /\ call.pc = "returned"
    /\ call.nwrite = 5
    /\ call.nread = 5
    /\ call.reads[5] # 0
    /\ call.ret = -EIO

WellFormedChain(pkts) ==
    LET n == Len(pkts) IN
    \/ (n = 1 /\ pkts[1].chain = "ONLY")
    \/ /\ n >= 2
       /\ pkts[1].chain = "FIRST"
       /\ pkts[n].chain = "LAST"
       /\ \A i \in 2 .. n - 1 : pkts[i].chain = "MIDDLE"

\* C34: the receive delivers an APDU only for a well-formed chain whose
\* fragments, concatenated in arrival order, fit the caller's capacity, and
\* reports their total length; a MIDDLE or LAST before any FIRST, a FIRST
\* or ONLY inside an open chain, an overflow of the capacity or a data link
\* failure ends the receive with an I/O error, and then nothing is reported
\* as received: the length the caller passed is left as it was.
C34_ChainReceive ==
    [][(call.fn = "optiga_nettran_recv_apdu" /\ call.pc = "receiving") =>
          LET p == call'.pkt
              Bad == \/ call'.res # 0
                     \/ (~call.open /\ p.chain \in {"MIDDLE", "LAST"})
                     \/ (call.open /\ p.chain \in {"FIRST", "ONLY"})
                     \/ Len(call.buf) + p.n > call.capacity
          IN  /\ Bad => (/\ call'.pc = "returned"
                         /\ call'.err # 0
                         /\ ~call'.delivered
                         /\ call'.len = call.capacity)
              /\ call'.delivered =>
                    /\ call'.pc = "returned"
                    /\ call'.err = 0
                    /\ WellFormedChain(call'.pkts)
                    /\ call'.buf = Concat(call'.pkts)
                    /\ Len(call'.buf) <= call.capacity
                    /\ call'.len = Len(call'.buf)
              /\ (call'.pc = "returned" /\ call'.err = 0)
                    => call'.delivered]_vars

\* a chain of FIRST, MIDDLE, LAST was delivered to a caller
C34_Witness ==
    /\ call.fn = "optiga_nettran_recv_apdu"
    /\ call.pc = "returned"
    /\ call.delivered
    /\ Len(call.pkts) = 3
    /\ call.len = 3

\* C35: in every command an encoder hands to cmds_submit_apdu the 16-bit
\* length field of the header equals tx_len - 4, the number of body bytes
\* that follow the 4-byte header, for every input length the encoder accepts
C35_HeaderLength ==
    (call.fn = "optrust_build" /\ call.pc = "done" /\ call.built.queued) =>
        /\ call.built.in_len = call.built.tx_len - OPTIGA_TRUSTX_IN_DATA_OFFSET
        /\ call.built.tx_len = call.built.wr_end

C35_Witness ==
    /\ call.fn = "optrust_build" /\ call.pc = "done"
    /\ call.kind = "ecdsa_verify" /\ call.len = 32
    /\ call.built.queued /\ call.built.tx_len = 117 /\ call.built.in_len = 113

\* C36: an encoder whose body would be longer than 0xFFFF bytes (len + 4 for
\* optrust_data_set, digest_len + 8 for optrust_ecdsa_sign_oid, digest_len +
\* 11 + the encoded signature for optrust_ecdsa_verify_oid) returns -EINVAL
\* and submits nothing, so no submitted command has a body longer than its
\* length field can express
C36_OverflowRejected ==
    (call.fn = "optrust_build" /\ call.pc = "done") =>
        LET body == CASE call.kind = "data_set" -> call.len + 4
                      [] call.kind = "ecdsa_sign" -> call.len + 8
                      [] call.kind = "ecdsa_verify" -> call.len + 11 + call.r.len
                      [] OTHER -> 0
        IN  /\ body > 65535 => (call.built.ret = -EINVAL /\ ~call.built.queued)
            /\ call.built.queued =>
                  /\ call.built.tx_len - 4 <= 65535
                  /\ call.built.in_len >= body

C36_Witness ==
    /\ call.fn = "optrust_build" /\ call.pc = "done"
    /\ call.kind = "ecdsa_verify" /\ call.len = 65455
    /\ call.r.success /\ call.r.len = 70
    /\ call.built.ret = -EINVAL /\ ~call.built.queued

\* C37: for a buffer that meets the assertion of optrust_ecdsa_verify_oid,
\* the capacity handed to the ASN.1 encoder is apdu_buf_len minus the write
\* offset, and the signature is never written past the end of apdu_buf
C37_AsnCapacityIsRemaining ==
    (/\ call.fn = "optrust_build" /\ call.pc = "done"
     /\ call.kind = "ecdsa_verify"
     /\ call.apdu_buf_len >= call.len + 15) =>
        /\ call.built.capacity = call.apdu_buf_len - SigOffset(call.len)
        /\ call.built.wr_end <= call.apdu_buf_len

\* C38: whenever a descriptor is completed with outcome 0 its rx_len is at
\* least 4, the length of the response header the encoders read
C38_SuccessHasHeader ==
    \A d \in Descs :
        (finished[d].signaled = 1 /\ finished[d].result = 0) => rx[d].len >= 4

====
